---- MODULE Spec2Model ----
(***************************************************************************)
(* A model of RiskEngine-JS: the in-process MemoryStore, the sliding-window *)
(* RateLimiter and the RiskEngine orchestrator that fuses the signals of    *)
(* the behaviour analyser, the pattern detector, the rate limiter, the      *)
(* fingerprinter and the reputation record into one decision.               *)
(*                                                                         *)
(* Conventions.                                                            *)
(*  - Date.now() is the variable now; Tick advances it.                     *)
(*  - Scores, weights, thresholds and penalties are JavaScript doubles in   *)
(*    the source; here they are fixed-point integers in thousandths         *)
(*    (Scale = 1000 stands for 1.0) and a division truncates.               *)
(*  - A JavaScript Map is a sequence of entries in insertion order (the     *)
(*    order its iterators use) or a function whose DOMAIN is its key set.   *)
(*  - An operation of an object is an operator from the object's state (a   *)
(*    record) to the record [s |-> new state, r |-> returned value].        *)
(*  - entry.createdAt and entry.accessCount of the store, the samples list  *)
(*    of a rate-limiter history and RateLimiter.globalMetrics are written   *)
(*    but never read by any modelled operation and are left out.            *)
(***************************************************************************)
EXTENDS Integers, Sequences, FiniteSets, TLC

VARIABLES
    now,        \* Date.now()
    steps,      \* number of operations performed so far (bounds the run)
    store,      \* MemoryStore: [maxSize, defaultTTL, map, expirations, stats]
    last,       \* the last operation: its name, arguments and returned value
    rateLimiter,\* RateLimiter: [defaultLimit, windowSize, buckets, penalties,
                \* history, userLimits]
    run,        \* per identifier, the check calls made since it was last fresh
    engine,     \* RiskEngine: [thresholds, weights, globalStats] with the
                \* BehaviorAnalyzer profiles and the Fingerprinter cache
    calls,      \* the evaluate calls in flight, each at one of its awaits
    batch,      \* the counters as they stood when the calls in flight began
    http,       \* the requests the anti-abuse middleware has been handed
    models,     \* AnomalyDetector.models
    eventLog    \* the list of events a caller hands to PatternDetector.detect

\* ---------------------------------------------------------------- bounds

\* The clock runs from StartTime to MaxClock, in steps of ClockStep
\* milliseconds: now, a window size and a ttl are numbers of steps, a
\* retryAfter is a number of milliseconds.
ClockStep == 1000
StartTime == 1
MaxClock == 3
\* Operations per run of the store specification.
MaxSteps == 3
\* MemoryStore options.maxSize and options.ttl of the modelled instance.
MaxSize == 2
TTL == 1

\* Calls per run of the rate-limiter specification.
MaxCalls == 4
\* Calls per run of the specification of one identifier's rate limit.
MaxChecks == 9
\* RateLimiter options.defaultLimit and options.windowSize of the instance.
DefaultLimit == 2
WindowSize == 2


\* Operations started per run of the engine specification, and the evaluate
\* calls that may be in flight together.
MaxOps == 3
MaxInFlight == 2
\* options.store of the engine: new MemoryStore({ maxSize, ttl }).
EngineMaxSize == 4
EngineTTL == 1
\* options.rateLimit of the engine: { defaultLimit, windowSize }.
EngineLimit == 2
EngineWindow == 1
\* The clock of the engine specification runs from StartTime to here.
EngineMaxClock == 2
\* options.behavior.minSamples of the engine.
MinSamples == 2

\* Calls per run of the specification of the analysers, and
\* options.minSamples of the AnomalyDetector.
MaxAnalyses == 4
AnomalyMinSamples == 2

\* Requests handed to one middleware in a run.
MaxRequests == 2
\* Calls per run of the specification of the rate limiter's buckets.
MaxBucketOps == 5
MaxReputationOps == 3
\* Clean decisions that follow a burst of blocked ones.
CleanDecisions == 30
MaxStabilityOps == 4
\* Requests of the stream replayed against two engines.
MaxReplayOps == 4
\* Calls per run of the specification of the fingerprint hash.
MaxFingerprintOps == 5
\* events in the list handed to PatternDetector.detect
MaxEvents == 5

Scale == 1000
\* Stands for the JavaScript number Infinity where an argument may be it.
Infinity == -1

\* ------------------------------------------------------------ JS values

Null == [t |-> "null"]
Num(n) == [t |-> "num", v |-> n]
Arr(s) == [t |-> "arr", v |-> s]
Obj(r) == [t |-> "obj", v |-> r]
True == [t |-> "bool", v |-> TRUE]
False == [t |-> "bool", v |-> FALSE]

Max(a, b) == IF a >= b THEN a ELSE b
Min(a, b) == IF a <= b THEN a ELSE b

clamp_open(value, lo, hi) == value

\* MathUtils.clamp
clamp(value, lo, hi) == Min(Max(value, lo), hi)

RECURSIVE SeqSum(_)
\* The sum of a sequence of numbers.
SeqSum(seq) == IF seq = <<>> THEN 0 ELSE Head(seq) + SeqSum(Tail(seq))

\* arr.slice(-n) for n >= 1
SliceLast(s, n) == IF Len(s) <= n THEN s ELSE SubSeq(s, Len(s) - n + 1, Len(s))

\* ---------------------------------------------------------- MemoryStore

\* Map operations on a sequence of entries [key, value, accessedAt].
MapHas(map, key) == \E i \in 1..Len(map) : map[i].key = key
MapGet(map, key) == map[CHOOSE i \in 1..Len(map) : map[i].key = key]
MapDelete(map, key) == SelectSeq(map, LAMBDA e : e.key # key)
\* Map.prototype.set keeps the position of a key that is already present.
MapSet(map, key, entry) ==
    IF MapHas(map, key)
    THEN [i \in 1..Len(map) |-> IF map[i].key = key THEN entry ELSE map[i]]
    ELSE Append(map, entry)
MapKeys(map) == [i \in 1..Len(map) |-> map[i].key]
KeySet(map) == {map[i].key : i \in 1..Len(map)}

\* Map operations on a function from keys to values.
FnHas(f, k) == k \in DOMAIN f
FnSet(f, k, v) == [x \in DOMAIN f \cup {k} |-> IF x = k THEN v ELSE f[x]]
FnDelete(f, k) == [x \in DOMAIN f \ {k} |-> f[x]]

\* new MemoryStore({ maxSize, ttl })
MemoryStore_new(maxSize, ttl) ==
    [maxSize |-> maxSize, defaultTTL |-> ttl, map |-> <<>>, expirations |-> <<>>,
     stats |-> [hits |-> 0, misses |-> 0, evictions |-> 0],
     cleanupTimer |-> TRUE]

\* `expiration && Date.now() > expiration` of get, has and getWithMetadata:
\* an expiration of 0 is falsy.
IsExpired(s, key, t) ==
    /\ key \in DOMAIN s.expirations
    /\ s.expirations[key] # 0
    /\ t > s.expirations[key]

MemoryStore_delete(s, key) ==
    [s EXCEPT !.map = MapDelete(s.map, key),
              !.expirations = FnDelete(s.expirations, key)]

\* The entry evictOldest selects: the first, in iteration order, of those
\* with the least accessedAt (the scan replaces its candidate only on <).
OldestIndex(map) ==
    CHOOSE i \in 1..Len(map) :
        /\ \A j \in 1..(i - 1) : map[j].accessedAt > map[i].accessedAt
        /\ \A j \in (i + 1)..Len(map) : map[j].accessedAt >= map[i].accessedAt

\* `if (oldestKey)`: the empty string is falsy, so an entry stored under ""
\* is selected but not deleted.
MemoryStore_evictOldest(s) ==
    IF Len(s.map) = 0 THEN s
    ELSE LET oldestKey == s.map[OldestIndex(s.map)].key
         IN  IF oldestKey # ""
             THEN [MemoryStore_delete(s, oldestKey) EXCEPT !.stats.evictions = @ + 1]
             ELSE s

MemoryStore_set(s, key, value, ttl, t) ==
    LET s1 == IF Len(s.map) >= s.maxSize THEN MemoryStore_evictOldest(s) ELSE s
        s2 == [s1 EXCEPT !.map = MapSet(s1.map, key,
                                    [key |-> key, value |-> value, accessedAt |-> t])]
    IN  IF ttl > 0
        THEN [s2 EXCEPT !.expirations = FnSet(s2.expirations, key, t + ttl)]
        ELSE s2

MemoryStore_get(s, key, t) ==
    IF ~MapHas(s.map, key)
    THEN [s |-> [s EXCEPT !.stats.misses = @ + 1], r |-> Null]
    ELSE IF IsExpired(s, key, t)
    THEN [s |-> [MemoryStore_delete(s, key) EXCEPT !.stats.misses = @ + 1], r |-> Null]
    ELSE [s |-> [s EXCEPT !.map = MapSet(s.map, key,
                                [MapGet(s.map, key) EXCEPT !.accessedAt = t]),
                          !.stats.hits = @ + 1],
          r |-> MapGet(s.map, key).value]

MemoryStore_has(s, key, t) ==
    IF ~MapHas(s.map, key) THEN [s |-> s, r |-> False]
    ELSE IF IsExpired(s, key, t) THEN [s |-> MemoryStore_delete(s, key), r |-> False]
    ELSE [s |-> s, r |-> True]

MemoryStore_getWithMetadata(s, key, t) ==
    IF ~MapHas(s.map, key) THEN [s |-> s, r |-> Null]
    ELSE IF IsExpired(s, key, t) THEN [s |-> MemoryStore_delete(s, key), r |-> Null]
    ELSE [s |-> s, r |-> MapGet(s.map, key).value]

\* keys(), values(), entries() and export() list every entry of the Map.
MemoryStore_keys(s) == MapKeys(s.map)

\* The updaters the model passes to update(): "same" returns its argument,
\* "zero" returns the number 0.
ApplyUpdater(upd, v) == IF upd = "zero" THEN Num(0) ELSE v

\* update(key, updater)
MemoryStore_update(s, key, upd, t) ==
    LET g == MemoryStore_get(s, key, t)
    IN  IF g.r = Null THEN [s |-> g.s, r |-> False]
        ELSE [s |-> MemoryStore_set(g.s, key, ApplyUpdater(upd, g.r), g.s.defaultTTL, t), r |-> True]

\* increment(key, field, amount); field = "" stands for an absent field.
MemoryStore_increment(s, key, field, amount, t) ==
    LET g == MemoryStore_get(s, key, t)
        current == g.r
    IN  IF current = Null THEN [s |-> g.s, r |-> False]
        ELSE IF current.t = "obj" /\ field # ""
        THEN LET old == IF field \in DOMAIN current.v THEN current.v[field] ELSE 0
                 new == [f \in DOMAIN current.v \cup {field} |->
                            IF f = field THEN old + amount ELSE current.v[f]]
             IN  [s |-> MemoryStore_set(g.s, key, Obj(new), g.s.defaultTTL, t), r |-> True]
        ELSE IF current.t = "num"
        THEN [s |-> MemoryStore_set(g.s, key, Num(current.v + amount), g.s.defaultTTL, t),
              r |-> Num(current.v + amount)]
        ELSE [s |-> MemoryStore_set(g.s, key, current, g.s.defaultTTL, t), r |-> True]

\* push(key, value, maxLength); Infinity is the default maxLength.
\* arr.slice(-0) is arr.slice(0), the whole list.
MemoryStore_push(s, key, value, maxLength, t) ==
    LET g == MemoryStore_get(s, key, t)
        arr == IF g.r = Null THEN Arr(<<>>) ELSE g.r
    IN  IF arr.t # "arr" THEN [s |-> g.s, r |-> False]
        ELSE LET pushed == Append(arr.v, value)
                 cut == IF maxLength # Infinity /\ Len(pushed) > maxLength /\ maxLength > 0
                        THEN SliceLast(pushed, maxLength) ELSE pushed
             IN  [s |-> MemoryStore_set(g.s, key, Arr(cut), g.s.defaultTTL, t), r |-> True]

\* clear that starts the counters again as well.
MemoryStore_clear_stats(s) ==
    [s EXCEPT !.map = <<>>, !.expirations = <<>>,
              !.stats = [hits |-> 0, misses |-> 0, evictions |-> 0]]

\* clear()
MemoryStore_clear(s) == [s EXCEPT !.map = <<>>, !.expirations = <<>>]

\* destroy(): clearInterval(this.cleanupTimer), then clear(). cleanupTimer
\* says whether the interval timer of the constructor is still set.
MemoryStore_destroy(s) == [MemoryStore_clear(s) EXCEPT !.cleanupTimer = FALSE]

\* cleanup(): delete every key whose expiration lies before now.
MemoryStore_cleanup(s, t) ==
    LET dead == {k \in DOMAIN s.expirations : t > s.expirations[k]}
    IN  [s EXCEPT !.map = SelectSeq(s.map, LAMBDA e : e.key \notin dead),
                  !.expirations = [k \in DOMAIN s.expirations \ dead |-> s.expirations[k]]]

\* import(jsonData): data is the parsed document as a sequence of
\* [key, value, expiration] in document order, expiration = 0 when absent.
\* The entries go into the Map directly, not through set().
RECURSIVE MemoryStore_import(_, _, _)
MemoryStore_import(s, data, t) ==
    IF data = <<>> THEN s
    ELSE LET e == Head(data)
             s1 == IF e.expiration = 0 \/ e.expiration > t
                   THEN LET m == [s EXCEPT !.map = MapSet(s.map, e.key,
                                     [key |-> e.key, value |-> e.value, accessedAt |-> t])]
                        IN  IF e.expiration # 0
                            THEN [m EXCEPT !.expirations =
                                        FnSet(m.expirations, e.key, e.expiration)]
                            ELSE m
                   ELSE s
         IN  MemoryStore_import(s1, Tail(data), t)

\* ---------------------------------------------------------- RateLimiter

\* options.burstMultiplier, options.penaltyDecay (in thousandths) and the
\* stale threshold factor of cleanup().
BurstMultiplier == 2
PenaltyDecay == 950
StaleFactor == 10
MaxPenalty == 10

\* new RateLimiter({ defaultLimit, windowSize })
RateLimiter_new(defaultLimit, windowSize) ==
    [defaultLimit |-> defaultLimit, windowSize |-> windowSize, buckets |-> <<>>,
     penalties |-> <<>>, history |-> <<>>, userLimits |-> <<>>,
     cleanupInterval |-> TRUE]

\* The options of a check() call: limit = 0 and riskScore = 0 stand for an
\* absent (or falsy) field.
NoOptions == [limit |-> 0, riskScore |-> 0]

RateLimiter_getOrCreateBucket(rl, identifier, t) ==
    IF FnHas(rl.buckets, identifier) THEN rl
    ELSE [rl EXCEPT !.buckets = FnSet(rl.buckets, identifier,
                [requests |-> <<>>, lastAccess |-> t, violations |-> 0])]

InWindow_closed(ts, t, windowSize) == ts >= t - windowSize

\* pruneOldRequests keeps the timestamps ts > now - windowSize.
InWindow(ts, t, windowSize) == ts > t - windowSize

RateLimiter_pruneOldRequests(requests, t, windowSize) ==
    SelectSeq(requests, LAMBDA ts : InWindow(ts, t, windowSize))

\* this.penalties.get(identifier) || 1
PenaltyOf(rl, identifier) ==
    IF FnHas(rl.penalties, identifier) /\ rl.penalties[identifier] # 0
    THEN rl.penalties[identifier] ELSE Scale

RateLimiter_getEffectiveLimit(rl, identifier, options) ==
    LET baseLimit == IF options.limit # 0 THEN options.limit
                     ELSE IF FnHas(rl.userLimits, identifier) /\ rl.userLimits[identifier] # 0
                     THEN rl.userLimits[identifier]
                     ELSE rl.defaultLimit
        adjustedLimit == (baseLimit * Scale) \div PenaltyOf(rl, identifier)
    IN  IF options.riskScore # 0
        THEN Max(1, (adjustedLimit * (Scale * Scale - options.riskScore * 700))
                        \div (Scale * Scale))
        ELSE Max(1, adjustedLimit)

RateLimiter_calculateSeverity(current, limit, burstLimit) ==
    IF current >= burstLimit THEN Scale
    ELSE ((current - limit) * Scale) \div (burstLimit - limit)

RateLimiter_applyPenalty_uncapped(rl, identifier, severity) ==
    [rl EXCEPT !.penalties = FnSet(rl.penalties, identifier,
        (PenaltyOf(rl, identifier) * (2 * Scale + severity)) \div (2 * Scale))]

RateLimiter_applyPenalty(rl, identifier, severity) ==
    LET currentPenalty == PenaltyOf(rl, identifier)
        newPenalty == Min((currentPenalty * (2 * Scale + severity)) \div (2 * Scale),
                          MaxPenalty * Scale)
        r1 == [rl EXCEPT !.penalties = FnSet(rl.penalties, identifier, newPenalty)]
    IN  IF FnHas(r1.buckets, identifier)
        THEN [r1 EXCEPT !.buckets[identifier].violations = @ + 1]
        ELSE r1

RateLimiter_applyReward(rl, identifier) ==
    IF FnHas(rl.penalties, identifier) /\ rl.penalties[identifier] > Scale
    THEN LET newPenalty == Max((rl.penalties[identifier] * PenaltyDecay) \div Scale, Scale)
         IN  IF newPenalty <= Scale + 10
             THEN [rl EXCEPT !.penalties = FnDelete(rl.penalties, identifier)]
             ELSE [rl EXCEPT !.penalties = FnSet(rl.penalties, identifier, newPenalty)]
    ELSE rl

SeqMin(s) == CHOOSE x \in {s[i] : i \in 1..Len(s)} : \A i \in 1..Len(s) : x <= s[i]

RateLimiter_getResetTime(requests, t, windowSize) ==
    IF Len(requests) = 0 THEN 0
    ELSE Max(0, (SeqMin(requests) + windowSize) - t)

\* Math.floor((windowSize / 10) * severity * penalty), in milliseconds
RateLimiter_calculateRetryAfter(rl, identifier, severity) ==
    LET baseDelay == (rl.windowSize * ClockStep) \div 10
    IN  (((baseDelay * severity) \div Scale) * PenaltyOf(rl, identifier)) \div Scale

RateLimiter_updateHistory(rl, identifier, count) ==
    LET h == IF FnHas(rl.history, identifier) THEN rl.history[identifier]
             ELSE [maxCount |-> 0, totalSamples |-> 0]
    IN  [rl EXCEPT !.history = FnSet(rl.history, identifier,
            [maxCount |-> Max(h.maxCount, count), totalSamples |-> h.totalSamples + 1])]

OverLimit_strict(currentCount, limit) == currentCount > limit

\* `currentCount >= limit` of check()
OverLimit(currentCount, limit) == currentCount >= limit

\* check(identifier, options). The result of an allowed call has no
\* severity, reason or retryAfter: they are 0 and "" here.
RateLimiter_check(rl, identifier, options, t) ==
    LET r0 == RateLimiter_getOrCreateBucket(rl, identifier, t)
        limit == RateLimiter_getEffectiveLimit(r0, identifier, options)
        requests == RateLimiter_pruneOldRequests(r0.buckets[identifier].requests, t, rl.windowSize)
        r1 == [r0 EXCEPT !.buckets[identifier].requests = requests]
        currentCount == Len(requests)
        burstLimit == limit * BurstMultiplier
        r2 == RateLimiter_updateHistory(r1, identifier, currentCount)
    IN  IF OverLimit(currentCount, limit)
        THEN LET severity == RateLimiter_calculateSeverity(currentCount, limit, burstLimit)
                 r3 == RateLimiter_applyPenalty(r2, identifier, severity)
             IN  [s |-> r3,
                  r |-> [allowed |-> FALSE, remaining |-> 0,
                         resetIn |-> RateLimiter_getResetTime(requests, t, rl.windowSize),
                         limit |-> limit, currentCount |-> currentCount,
                         severity |-> severity,
                         reason |-> IF currentCount >= burstLimit
                                    THEN "burst_exceeded" ELSE "rate_exceeded",
                         retryAfter |-> RateLimiter_calculateRetryAfter(r3, identifier, severity)]]
        ELSE LET r3 == [r2 EXCEPT !.buckets[identifier].requests = Append(requests, t),
                                  !.buckets[identifier].lastAccess = t]
                 r4 == IF 2 * currentCount < limit
                       THEN RateLimiter_applyReward(r3, identifier) ELSE r3
             IN  [s |-> r4,
                  r |-> [allowed |-> TRUE, remaining |-> limit - currentCount - 1,
                         resetIn |-> RateLimiter_getResetTime(Append(requests, t), t, rl.windowSize),
                         limit |-> limit, currentCount |-> currentCount + 1,
                         severity |-> 0, reason |-> "", retryAfter |-> 0]]

RateLimiter_setUserLimit(rl, identifier, limit) ==
    [rl EXCEPT !.userLimits = FnSet(rl.userLimits, identifier, limit)]

\* slidingWindowLog(identifier, options): the requests of the window count
\* with a weight that falls from 1 to 0 with their age (thousandths).
RateLimiter_slidingWindowLog(rl, identifier, options, t) ==
    LET r0 == RateLimiter_getOrCreateBucket(rl, identifier, t)
        limit == RateLimiter_getEffectiveLimit(r0, identifier, options)
        requests == r0.buckets[identifier].requests
        weights == [i \in 1..Len(requests) |->
                       IF requests[i] > t - rl.windowSize
                       THEN Scale - ((t - requests[i]) * Scale) \div rl.windowSize
                       ELSE 0]
        weightedCount == SeqSum(weights)
    IN  IF weightedCount >= limit * Scale
        THEN [s |-> r0, r |-> [allowed |-> FALSE, weightedCount |-> weightedCount,
                               limit |-> limit]]
        ELSE [s |-> [r0 EXCEPT !.buckets[identifier].requests = Append(@, t)],
              r |-> [allowed |-> TRUE, weightedCount |-> weightedCount + Scale,
                     limit |-> limit]]

\* tokenBucket(identifier, options) without options: the bucket under
\* `token:${identifier}` holds tokens (thousandths) and lastRefill and
\* nothing else; a request costs one token.
RateLimiter_tokenBucket(rl, identifier, t) ==
    LET key == "token:" \o identifier
        limit == rl.defaultLimit
        b0 == IF FnHas(rl.buckets, key) THEN rl.buckets[key]
              ELSE [tokens |-> limit * Scale, lastRefill |-> t]
        refill == ((t - b0.lastRefill) * limit * Scale) \div rl.windowSize
        tokens == Min(limit * Scale, b0.tokens + refill)
        cost == Scale
        put(n) == [rl EXCEPT !.buckets = FnSet(@, key, [tokens |-> n, lastRefill |-> t])]
    IN  IF tokens >= cost
        THEN [s |-> put(tokens - cost),
              r |-> [allowed |-> TRUE, remainingTokens |-> tokens - cost,
                     limit |-> limit, retryAfter |-> 0]]
        ELSE [s |-> put(tokens),
              r |-> [allowed |-> FALSE, remainingTokens |-> tokens, limit |-> limit,
                     retryAfter |-> ((cost - tokens) * rl.windowSize * ClockStep
                                        + limit * Scale - 1) \div (limit * Scale)]]

\* leakyBucket(identifier, options) without options: the bucket under
\* `leaky:${identifier}` holds water (thousandths) and lastLeak and nothing
\* else; a request adds 1.
RateLimiter_leakyBucket(rl, identifier, t) ==
    LET key == "leaky:" \o identifier
        capacity == rl.defaultLimit
        b0 == IF FnHas(rl.buckets, key) THEN rl.buckets[key]
              ELSE [water |-> 0, lastLeak |-> t]
        leaked == ((t - b0.lastLeak) * capacity * Scale) \div rl.windowSize
        water == Max(0, b0.water - leaked)
        amount == Scale
        put(n) == [rl EXCEPT !.buckets = FnSet(@, key, [water |-> n, lastLeak |-> t])]
    IN  IF water + amount <= capacity * Scale
        THEN [s |-> put(water + amount),
              r |-> [allowed |-> TRUE, currentLevel |-> water + amount,
                     capacity |-> capacity]]
        ELSE [s |-> put(water),
              r |-> [allowed |-> FALSE, currentLevel |-> water, capacity |-> capacity]]

\* cleanup(): a bucket whose lastAccess is more than 10 windows old goes,
\* with the penalty, history and user limit stored under its key. For a
\* bucket without lastAccess `now - bucket.lastAccess` is NaN and the
\* comparison is false.
RateLimiter_cleanup(rl, t) ==
    LET stale == {k \in DOMAIN rl.buckets :
                     /\ "lastAccess" \in DOMAIN rl.buckets[k]
                     /\ t - rl.buckets[k].lastAccess > rl.windowSize * StaleFactor}
        keep(f) == [k \in DOMAIN f \ stale |-> f[k]]
    IN  [rl EXCEPT !.buckets = keep(rl.buckets), !.penalties = keep(rl.penalties),
                   !.history = keep(rl.history), !.userLimits = keep(rl.userLimits)]

RateLimiter_resetAll(rl) ==
    [rl EXCEPT !.buckets = <<>>, !.penalties = <<>>, !.history = <<>>,
               !.userLimits = <<>>]

\* destroy(): clearInterval(this.cleanupInterval), then resetAll().
RateLimiter_destroy(rl) == [RateLimiter_resetAll(rl) EXCEPT !.cleanupInterval = FALSE]

RateLimiter_reset(rl, identifier) ==
    [rl EXCEPT !.buckets = FnDelete(FnDelete(FnDelete(rl.buckets, identifier),
                                "token:" \o identifier), "leaky:" \o identifier),
               !.penalties = FnDelete(rl.penalties, identifier),
               !.history = FnDelete(rl.history, identifier)]

\* ----------------------------------------------------- BehaviorAnalyzer

\* The weight analyze() gives a factor of each type.
FactorWeight(type) ==
    CASE type = "anomaly" -> 250
      [] type = "velocity" -> 200
      [] type = "rhythm" -> 150
      [] type = "lowDiversity" -> 100
      [] type = "automation" -> 200
      [] type = "sessionAnomaly" -> 100
      [] OTHER -> 100

FeatureHistoryCap == 100
ConfidenceSamples == 20
BaselineSamples == 5

\* updateProfile: featureHistory grows by one entry (n is its length);
\* from five entries on the baseline is computed (baseline says that
\* baselineFeatures is not null) and the confidence follows the length.
BehaviorAnalyzer_updateProfile(profiles, userId) ==
    LET old == IF FnHas(profiles, userId) THEN profiles[userId]
               ELSE [n |-> 0, confidence |-> 0, baseline |-> FALSE]
        n == Min(old.n + 1, FeatureHistoryCap)
    IN  FnSet(profiles, userId,
              [n |-> n,
               confidence |-> IF n >= BaselineSamples
                              THEN Min((n * Scale) \div ConfidenceSamples, Scale)
                              ELSE old.confidence,
               baseline |-> IF n >= BaselineSamples THEN TRUE ELSE old.baseline])

\* analyze(userId, events). The factor detectors (anomaly, velocity,
\* rhythm, diversity, automation, session) are inputs: factors is the list
\* of the factors that passed their thresholds.
BehaviorAnalyzer_analyze(profiles, userId, events, factors) ==
    IF Len(events) < MinSamples
    THEN [s |-> profiles, r |-> [reliable |-> FALSE, riskScore |-> 500, factors |-> <<>>]]
    ELSE LET weightedSum == SeqSum([i \in 1..Len(factors) |->
                                factors[i].score * FactorWeight(factors[i].type)])
             totalWeight == SeqSum([i \in 1..Len(factors) |-> FactorWeight(factors[i].type)])
             riskScore == IF totalWeight > 0 THEN weightedSum \div totalWeight ELSE 0
         IN  [s |-> BehaviorAnalyzer_updateProfile(profiles, userId),
              r |-> [reliable |-> TRUE, riskScore |-> clamp(riskScore, 0, Scale),
                     factors |-> factors]]

BehaviorAnalyzer_clearProfile(profiles, userId) == FnDelete(profiles, userId)

\* ------------------------------------------------------ AnomalyDetector

\* options.sensitivity (in thousandths)
Sensitivity == 2500

\* buildModel for the one feature ("value") of a list of numbers: the
\* statistics detect() reads. mean and std are in thousandths.
AnomalyDetector_buildModel(values) ==
    LET n == Len(values)
        sorted == SortSeq(values, LAMBDA a, b : a < b)
        mean == (SeqSum(values) * Scale) \div n
        variance == SeqSum([i \in 1..n |-> (values[i] * Scale - mean)
                                            * (values[i] * Scale - mean)]) \div n
        q1 == sorted[(n \div 4) + 1]
        q3 == sorted[((3 * n) \div 4) + 1]
    IN  [mean |-> mean,
         std |-> CHOOSE r \in 0..(10 * Scale) : r * r <= variance /\ variance < (r + 1) * (r + 1),
         median |-> sorted[(n \div 2) + 1],
         q1 |-> q1, q3 |-> q3, iqr |-> q3 - q1,
         min |-> sorted[1], max |-> sorted[n]]

AnomalyDetector_train_forget(m, identifier, data) ==
    IF Len(data) < AnomalyMinSamples
    THEN [s |-> FnDelete(m, identifier),
          r |-> [trained |-> FALSE, reason |-> "insufficient_data"]]
    ELSE [s |-> FnSet(m, identifier, AnomalyDetector_buildModel(data)),
          r |-> [trained |-> TRUE, reason |-> ""]]

\* train(identifier, data), data a list of numbers
AnomalyDetector_train(m, identifier, data) ==
    IF Len(data) < AnomalyMinSamples
    THEN [s |-> m, r |-> [trained |-> FALSE, reason |-> "insufficient_data"]]
    ELSE [s |-> FnSet(m, identifier, AnomalyDetector_buildModel(data)),
          r |-> [trained |-> TRUE, reason |-> ""]]

\* detect(identifier, sample), sample a number. With one feature the test
\* `anomalies.length > count * contamination` is the feature's own test.
AnomalyDetector_detect(m, identifier, sample) ==
    IF ~FnHas(m, identifier)
    THEN [anomaly |-> FALSE, reason |-> "no_model", score |-> 0]
    ELSE LET stats == m[identifier]
             value == sample * Scale
             distance == IF value >= stats.mean THEN value - stats.mean
                         ELSE stats.mean - value
             zScore == IF stats.std > 0 THEN (distance * Scale) \div stats.std ELSE 0
             iqrScore == IF stats.iqr > 0
                         THEN Max(0, Max(((sample - stats.q3) * Scale) \div stats.iqr,
                                         ((stats.q1 - sample) * Scale) \div stats.iqr))
                         ELSE 0
             combinedScore == (zScore * 600 + iqrScore * 400) \div Scale
         IN  [anomaly |-> combinedScore > Sensitivity, reason |-> "",
              score |-> combinedScore]

\* ------------------------------------------------------ PatternDetector

MinPatternLength == 2

SeqMax(seq) == CHOOSE x \in {seq[i] : i \in 1..Len(seq)} : \A i \in 1..Len(seq) : x >= seq[i]

\* calculatePatternRisk(patterns)
PatternDetector_calculatePatternRisk(patterns) ==
    IF Len(patterns) = 0 THEN 0
    ELSE LET risks == [i \in 1..Len(patterns) |-> patterns[i].risk]
             maxRisk == SeqMax(risks)
             avgRisk == SeqSum(risks) \div Len(risks)
             patternCountBonus == Min(Len(patterns) * 100, 200)
         IN  clamp((maxRisk * 600 + avgRisk * 300) \div Scale + patternCountBonus, 0, Scale)

\* identifyPrimaryAttack: the attack pattern of the greatest risk, the
\* first of them in the list when several share it; "" stands for null.
PatternDetector_identifyPrimaryAttack(patterns) ==
    LET attacks == SelectSeq(patterns, LAMBDA q : q.type = "attack")
    IN  IF Len(attacks) = 0 THEN ""
        ELSE LET i == CHOOSE i \in 1..Len(attacks) :
                         /\ \A j \in 1..Len(attacks) : attacks[j].risk <= attacks[i].risk
                         /\ \A j \in 1..(i - 1) : attacks[j].risk < attacks[i].risk
             IN  attacks[i].attackName

\* A string the attack patterns are tested against is a sequence of
\* pieces: a piece is one of the words the patterns are built from, the
\* separator "|" that join puts between two actions, or a text in which no
\* word occurs ("home"). The strings are lower case, as toLowerCase leaves
\* them. A pattern is the set of pieces its group matches and whether the
\* pattern is anchored at the end of the string as well as at its start.
knownAttackPatterns ==
    << [attackName |-> "bruteForce", words |-> {"login", "auth", "signin"},
        toEnd |-> TRUE, minRepetitions |-> 5, maxInterval |-> 5000,
        sequentialIds |-> FALSE, riskMultiplier |-> 1500],
       [attackName |-> "enumeration",
        words |-> {"user", "account", "profile", "api/users"},
        toEnd |-> TRUE, minRepetitions |-> 10, maxInterval |-> 0,
        sequentialIds |-> TRUE, riskMultiplier |-> 1300],
       [attackName |-> "scraping",
        words |-> {"list", "search", "catalog", "products", "items"},
        toEnd |-> TRUE, minRepetitions |-> 20, maxInterval |-> 0,
        sequentialIds |-> FALSE, riskMultiplier |-> 1200],
       [attackName |-> "cardTesting",
        words |-> {"payment", "checkout", "card", "validate"},
        toEnd |-> TRUE, minRepetitions |-> 3, maxInterval |-> 0,
        sequentialIds |-> FALSE, riskMultiplier |-> 2000],
       [attackName |-> "accountTakeover",
        words |-> {"password", "reset", "recover", "2fa", "mfa"},
        toEnd |-> TRUE, minRepetitions |-> 3, maxInterval |-> 0,
        sequentialIds |-> FALSE, riskMultiplier |-> 1800],
       [attackName |-> "apiAbuse", words |-> {"api/", "api/users"},
        toEnd |-> FALSE, minRepetitions |-> 100, maxInterval |-> 0,
        sequentialIds |-> FALSE, riskMultiplier |-> 1400] >>

\* str.match(config.pattern) and config.pattern.test(str): /^(w1|w2)+$/
\* matches a string that is one or more of the words and nothing else,
\* /^(w)+/ a string that starts with the word.
RegexMatches(config, str) ==
    /\ Len(str) >= 1
    /\ str[1] \in config.words
    /\ config.toEnd => \A i \in 1..Len(str) : str[i] \in config.words

\* actions.join('|')
RECURSIVE ArrayJoin(_)
ArrayJoin(actions) ==
    IF Len(actions) = 0 THEN <<>>
    ELSE IF Len(actions) = 1 THEN actions[1]
    ELSE actions[1] \o <<"|">> \o ArrayJoin(Tail(actions))

\* calculateAttackRisk(attackName, events, config). The events carry no
\* targetId, so areSequential sees an empty list and answers false.
PatternDetector_calculateAttackRisk(matching, config) ==
    LET n == Len(matching)
        baseRisk == (n * Scale) \div (config.minRepetitions * 3)
        intervals == [i \in 1..(n - 1) |->
                         matching[i + 1].timestamp - matching[i].timestamp]
        \* MathUtils.mean(intervals) < maxInterval; the mean of no interval is 0
        quick == /\ config.maxInterval > 0
                 /\ IF n <= 1 THEN TRUE
                    ELSE SeqSum(intervals) < config.maxInterval * (n - 1)
        timed == IF quick THEN (baseRisk * 1200) \div Scale ELSE baseRisk
    IN  clamp((timed * config.riskMultiplier) \div Scale, 0, Scale)

\* detectKnownAttacks(events)
PatternDetector_detectKnownAttacks(events) ==
    LET actions == [i \in 1..Len(events) |-> events[i].action]
        actionStr == ArrayJoin(actions)
        found(config) ==
            LET matchingEvents ==
                    SelectSeq(events, LAMBDA e : RegexMatches(config, e.action))
                risk == PatternDetector_calculateAttackRisk(matchingEvents, config)
            IN  IF /\ RegexMatches(config, actionStr)
                   /\ Len(matchingEvents) >= config.minRepetitions
                   /\ risk > 300
                THEN <<[type |-> "attack", attackName |-> config.attackName,
                        risk |-> risk]>>
                ELSE <<>>
        RECURSIVE from(_)
        from(i) == IF i > Len(knownAttackPatterns) THEN <<>>
                   ELSE found(knownAttackPatterns[i]) \o from(i + 1)
    IN  from(1)

\* detect(events). The detectors of sequence, temporal, known-attack,
\* anomalous and coordinated patterns are inputs: patterns is the list of
\* what they found, each with its type, risk and attackName.
PatternDetector_detect(events, patterns) ==
    IF Len(events) < MinPatternLength
    THEN [patterns |-> <<>>, riskScore |-> 0, attackType |-> ""]
    ELSE [patterns |-> patterns,
          riskScore |-> PatternDetector_calculatePatternRisk(patterns),
          attackType |-> PatternDetector_identifyPrimaryAttack(patterns)]

\* --------------------------------------------------------- Fingerprinter

\* extractComponents(request), as the facts detectAnomalies and detectBot
\* read. A request is of one of three kinds:
\*   "browser"  user-agent of a current Chrome, residential address, the
\*              client hints (timezone, screen, canvas, webgl) present;
\*   "script"   user-agent "python-requests/2.31", no client hints;
\*   "bot"      user-agent "Googlebot/2.1", no client hints.
\* hashPlugins returns null or a hash string, so `plugins.length === 0`
\* holds of no request.
Fingerprinter_extractComponents(request) ==
    [uaRaw |-> TRUE,
     uaIsBot |-> request.kind = "bot",
     headless |-> FALSE,
     webdriver |-> FALSE,
     datacenter |-> FALSE,
     oldChrome |-> FALSE,
     clientData |-> request.kind = "browser",
     canvasWebgl |-> request.kind = "browser",
     oddResolution |-> FALSE,
     mobileNoTouch |-> FALSE,
     emptyPlugins |-> FALSE,
     cookiesDisabled |-> FALSE]

\* computeFingerprint(components): requests of one kind share a fingerprint.
Fingerprinter_computeFingerprint(request) == request.kind

If(b, x) == IF b THEN x ELSE 0

Fingerprinter_detectAnomalies(c) ==
    LET anomalyScore ==
            If(c.uaIsBot, 800) + If(~c.uaRaw, 300) + If(c.datacenter, 400)
          + If(c.oldChrome, 200) + If(~c.clientData, 300) + If(~c.canvasWebgl, 200)
          + If(c.oddResolution, 150) + If(c.mobileNoTouch, 250)
          + If(c.emptyPlugins, 150) + If(c.cookiesDisabled, 100)
    IN  [score |-> clamp(anomalyScore, 0, Scale)]

Fingerprinter_detectBot(c) ==
    LET botScore ==
            If(c.uaIsBot, 900) + If(~c.clientData, 700) + If(c.emptyPlugins, 600)
          + If(c.headless, 950) + If(c.webdriver, 1000) + If(c.datacenter, 300)
    IN  [isBot |-> botScore > 700, score |-> clamp(botScore, 0, Scale)]

\* checkSuspicious: no fingerprint has been marked suspicious or blocked,
\* which leaves the anomaly test.
Fingerprinter_checkSuspicious(c) ==
    [suspicious |-> Fingerprinter_detectAnomalies(c).score > 700]

FingerprintHistoryCap == 100

\* calculateStability(userId, fingerprint): the history kept under
\* fp:userId grows by the fingerprint.
Fingerprinter_calculateStability(cache, userId, fingerprint) ==
    LET history == IF FnHas(cache, userId) THEN cache[userId] ELSE <<>>
        recent == SliceLast(history, 10)
        recentChanges == Cardinality({i \in 1..Len(recent) : recent[i] # fingerprint})
    IN  [s |-> FnSet(cache, userId,
                     SliceLast(Append(history, fingerprint), FingerprintHistoryCap)),
         r |-> [stable |-> recentChanges < 3, recentChanges |-> recentChanges]]

Fingerprinter_generate(cache, request) ==
    LET components == Fingerprinter_extractComponents(request)
        fingerprint == Fingerprinter_computeFingerprint(request)
        stability == Fingerprinter_calculateStability(cache, request.userId, fingerprint)
    IN  [s |-> stability.s,
         r |-> [fingerprint |-> fingerprint,
                stability |-> stability.r,
                anomalyScore |-> Fingerprinter_detectAnomalies(components),
                isBot |-> Fingerprinter_detectBot(components),
                isSuspicious |-> Fingerprinter_checkSuspicious(components)]]

\* ------------------------------------------------------------ RiskEngine

\* The engine with the store and the rate limiter it owns is a record
\* [store, rateLimiter, engine]; new RiskEngine(options) with the default
\* thresholds and weights and without hooks ("none" stands for null; a hook
\* that is given either "returns" or "throws" when it is called):
RiskEngine_new ==
    [store |-> MemoryStore_new(EngineMaxSize, EngineTTL),
     rateLimiter |-> RateLimiter_new(EngineLimit, EngineWindow),
     engine |->
        [thresholds |-> [low |-> 300, medium |-> 500, high |-> 700, critical |-> 900],
         weights |-> [behavior |-> 250, patterns |-> 250, rateLimit |-> 200,
                      fingerprint |-> 150, reputation |-> 150],
         globalStats |-> [totalEvaluations |-> 0, blocked |-> 0, challenged |-> 0,
                          allowed |-> 0, avgRiskScore |-> 0],
         hooks |-> [onHighRisk |-> "none", onBlock |-> "none", onAnomaly |-> "none"],
         behaviorProfiles |-> <<>>,
         fingerprintCache |-> <<>>]]

EventsKey(userId) == "events:" \o userId
ReputationKey(userId) == "reputation:" \o userId
\* `${userId}:${request.endpoint || request.path || 'default'}`
RateLimitIdentifier(userId, request) == userId \o ":" \o request.endpoint

EventsCap == 1000

\* recordEvent(userId, request)
RiskEngine_recordEvent(st, userId, request, t) ==
    MemoryStore_push(st, EventsKey(userId),
                     Obj([timestamp |-> t, endpoint |-> request.endpoint]),
                     EventsCap, t).s

\* `this.store.get(`events:${userId}`) || []`
EventsOf(got) == IF got.r = Null THEN <<>> ELSE got.r.v

\* getReputation(userId): the object the store holds (the caller and the
\* store then share it: id names the object) or a new default record
\* (id 0: no one else holds it).
DefaultReputation ==
    [id |-> 0, score |-> 0, history |-> <<>>, totalRequests |-> 0, blockedRequests |-> 0]

RiskEngine_getReputation(st, userId, t) ==
    LET g == MemoryStore_get(st, ReputationKey(userId), t)
    IN  [s |-> g.s, r |-> IF g.r = Null THEN DefaultReputation ELSE g.r.v]

\* calculateRiskScore(components)
RiskEngine_calculateRiskScore(components, weights) ==
    LET useBehavior == components.behavior.reliable
        rateLimitScore == IF components.rateLimit.allowed THEN 0
                          ELSE IF components.rateLimit.severity # 0
                          THEN components.rateLimit.severity ELSE 500
        fpScore == Max(Max(components.fingerprint.anomalyScore.score,
                           components.fingerprint.isBot.score),
                       If(components.fingerprint.isSuspicious.suspicious, 700))
        weightedSum ==
              If(useBehavior, components.behavior.riskScore * weights.behavior)
            + components.patterns.riskScore * weights.patterns
            + rateLimitScore * weights.rateLimit
            + fpScore * weights.fingerprint
            + components.reputation.score * weights.reputation
        totalWeight ==
              If(useBehavior, weights.behavior) + weights.patterns + weights.rateLimit
            + weights.fingerprint + weights.reputation
    IN  IF totalWeight = 0 THEN 0
        ELSE LET base0 == weightedSum \div totalWeight
                 base1 == IF components.patterns.attackType # ""
                          THEN Max(base0, 600) ELSE base0
                 base2 == IF components.fingerprint.isBot.isBot
                          THEN Max(base1, 700) ELSE base1
                 base3 == IF ~components.rateLimit.allowed
                          THEN Max(base2, 500) ELSE base2
             IN  clamp(base3, 0, Scale)

\* The level read from the bands setThresholds builds from the thresholds
\* ([low, medium), [medium, high), [high, critical), critical and up), the
\* lowest band first.
RiskEngine_getRiskLevel_bands(score, thresholds) ==
    IF score >= thresholds.low /\ score < thresholds.medium THEN "low"
    ELSE IF score >= thresholds.medium /\ score < thresholds.high THEN "medium"
    ELSE IF score >= thresholds.high /\ score < thresholds.critical THEN "high"
    ELSE IF score >= thresholds.critical THEN "critical"
    ELSE "minimal"

RiskEngine_getRiskLevel(score, thresholds) ==
    IF score >= thresholds.critical THEN "critical"
    ELSE IF score >= thresholds.high THEN "high"
    ELSE IF score >= thresholds.medium THEN "medium"
    ELSE IF score >= thresholds.low THEN "low"
    ELSE "minimal"

RiskEngine_getBlockReason(components) ==
    IF components.patterns.attackType # ""
    THEN "detected_" \o components.patterns.attackType
    ELSE IF components.fingerprint.isBot.isBot THEN "bot_detected"
    ELSE IF ~components.rateLimit.allowed THEN "rate_limit_exceeded"
    ELSE "high_risk_score"

\* determineAction(riskScore, components): the type and reason of the
\* action (its duration, factor and challengeType are left out).
RiskEngine_determineAction(riskScore, components, thresholds) ==
    IF riskScore >= thresholds.critical
    THEN [type |-> "ban", reason |-> "critical_risk_level"]
    ELSE IF riskScore >= thresholds.high
    THEN [type |-> "block", reason |-> RiskEngine_getBlockReason(components)]
    ELSE IF riskScore >= thresholds.medium
    THEN [type |-> "throttle", reason |-> "elevated_risk"]
    ELSE IF riskScore >= thresholds.low
    THEN [type |-> "challenge", reason |-> "suspicious_activity"]
    ELSE [type |-> "allow", reason |-> "low_risk"]

IsAllowed_throttle(action) == action.type \in {"allow", "challenge", "throttle"}

\* `action.type === 'allow' || action.type === 'challenge'` of evaluate
IsAllowed(action) == action.type = "allow" \/ action.type = "challenge"

\* updateStats with a branch for 'allow' in the place of the final else: a
\* throttle decision is counted in totalEvaluations only.
RiskEngine_updateStats_allowOnly(stats, decision) ==
    LET n == stats.totalEvaluations + 1
    IN  [totalEvaluations |-> n,
         blocked |-> stats.blocked + If(decision.action.type \in {"block", "ban"}, 1),
         challenged |-> stats.challenged + If(decision.action.type = "challenge", 1),
         allowed |-> stats.allowed + If(decision.action.type = "allow", 1),
         avgRiskScore |-> ((n - 1) * stats.avgRiskScore + decision.riskScore) \div n]

RiskEngine_updateStats(stats, decision) ==
    LET n == stats.totalEvaluations + 1
    IN  [totalEvaluations |-> n,
         blocked |-> stats.blocked + If(decision.action.type \in {"block", "ban"}, 1),
         challenged |-> stats.challenged + If(decision.action.type = "challenge", 1),
         allowed |-> stats.allowed
                        + If(decision.action.type \notin {"block", "ban", "challenge"}, 1),
         avgRiskScore |-> ((n - 1) * stats.avgRiskScore + decision.riskScore) \div n]

RECURSIVE EmaFrom(_, _, _, _)
EmaFrom(arr, alpha, i, ema) ==
    IF i > Len(arr) THEN ema
    ELSE EmaFrom(arr, alpha, i + 1, (alpha * arr[i] + (Scale - alpha) * ema) \div Scale)

\* MathUtils.exponentialMovingAverage(arr, alpha)
exponentialMovingAverage(arr, alpha) ==
    IF Len(arr) = 0 THEN 0 ELSE EmaFrom(arr, alpha, 2, arr[1])

ReputationHistoryCap == 100
ReputationRecent == 20

\* updateReputation that keeps every entry of the history.
RiskEngine_updateReputation_uncapped(st, userId, decision, objId, t) ==
    LET g == MemoryStore_get(st, ReputationKey(userId), t)
        old == IF g.r = Null THEN [DefaultReputation EXCEPT !.id = objId] ELSE g.r.v
        history == Append(old.history,
                        [riskScore |-> decision.riskScore, action |-> decision.action.type])
        totalRequests == old.totalRequests + 1
        blockedRequests == old.blockedRequests + If(~decision.allowed, 1)
        recent == SliceLast(history, ReputationRecent)
        recentScores == [i \in 1..Len(recent) |-> recent[i].riskScore]
        decayedScore == exponentialMovingAverage(recentScores, 300)
        blockRatio == (blockedRequests * Scale) \div totalRequests
        new == [id |-> old.id,
                score |-> clamp((decayedScore * 700 + blockRatio * 300) \div Scale, 0, Scale),
                history |-> history,
                totalRequests |-> totalRequests,
                blockedRequests |-> blockedRequests]
    IN  [s |-> MemoryStore_set(g.s, ReputationKey(userId), Obj(new), g.s.defaultTTL, t),
         r |-> new]

\* updateReputation(userId, decision). A record that is not in the store is
\* created; objId names the new object.
RiskEngine_updateReputation(st, userId, decision, objId, t) ==
    LET g == MemoryStore_get(st, ReputationKey(userId), t)
        old == IF g.r = Null THEN [DefaultReputation EXCEPT !.id = objId] ELSE g.r.v
        history == SliceLast(Append(old.history,
                        [riskScore |-> decision.riskScore, action |-> decision.action.type]),
                        ReputationHistoryCap)
        totalRequests == old.totalRequests + 1
        blockedRequests == old.blockedRequests + If(~decision.allowed, 1)
        recent == SliceLast(history, ReputationRecent)
        recentScores == [i \in 1..Len(recent) |-> recent[i].riskScore]
        decayedScore == exponentialMovingAverage(recentScores, 300)
        blockRatio == (blockedRequests * Scale) \div totalRequests
        new == [id |-> old.id,
                score |-> clamp((decayedScore * 700 + blockRatio * 300) \div Scale, 0, Scale),
                history |-> history,
                totalRequests |-> totalRequests,
                blockedRequests |-> blockedRequests]
    IN  [s |-> MemoryStore_set(g.s, ReputationKey(userId), Obj(new), g.s.defaultTTL, t),
         r |-> new]

\* evaluate(request) up to its first await: recordEvent, then the
\* synchronous part of analyzeBehavior, analyzePatterns, checkRateLimit (as
\* far as its `await this.getReputation`), analyzeFingerprint and
\* getReputation. inputs are the findings of the detectors.
RiskEngine_evaluateStart(w, request, inputs, t) ==
    LET userId == request.userId
        st1 == RiskEngine_recordEvent(w.store, userId, request, t)
        g2 == MemoryStore_get(st1, EventsKey(userId), t)
        behavior == BehaviorAnalyzer_analyze(w.engine.behaviorProfiles, userId,
                                             EventsOf(g2), inputs.factors)
        g3 == MemoryStore_get(g2.s, EventsKey(userId), t)
        patterns == PatternDetector_detect(EventsOf(g3), inputs.patterns)
        rep4 == RiskEngine_getReputation(g3.s, userId, t)
        fp == Fingerprinter_generate(w.engine.fingerprintCache, request)
        rep5 == RiskEngine_getReputation(rep4.s, userId, t)
    IN  [w |-> [w EXCEPT !.store = rep5.s,
                         !.engine.behaviorProfiles = behavior.s,
                         !.engine.fingerprintCache = fp.s],
         call |-> [request |-> request, pc |-> "checkRateLimit",
                   behavior |-> behavior.r, patterns |-> patterns,
                   fingerprint |-> fp.r, reputation |-> rep5.r,
                   rateLimit |-> Null]]

\* The rest of checkRateLimit: rateLimiter.check with the score of the
\* reputation record as it is now.
RiskEngine_checkRateLimit(w, call, t) ==
    LET c == RateLimiter_check(w.rateLimiter,
                               RateLimitIdentifier(call.request.userId, call.request),
                               [limit |-> 0, riskScore |-> call.reputation.score], t)
    IN  [w |-> [w EXCEPT !.rateLimiter = c.s],
         call |-> [call EXCEPT !.pc = "decide", !.rateLimit = c.r]]

\* The components evaluate hands to calculateRiskScore and determineAction.
ComponentsOf(call) ==
    [behavior |-> call.behavior, patterns |-> call.patterns,
     rateLimit |-> call.rateLimit, fingerprint |-> call.fingerprint,
     reputation |-> call.reputation]

\* The hooks in the order triggerHooks looks at them, and the condition
\* under which it calls each.
HookNames == <<"onHighRisk", "onBlock", "onAnomaly">>
HookIsDue(h, e, decision) ==
    /\ e.hooks[h] # "none"
    /\ CASE h = "onHighRisk" -> decision.riskScore >= e.thresholds.high
         [] h = "onBlock" -> decision.action.type \in {"block", "ban"}
         [] h = "onAnomaly" -> Len(decision.components.behavior.factors) > 0

\* The decision evaluate builds (without sessionId and metadata).
RiskEngine_decision(call, e) ==
    LET components == ComponentsOf(call)
        riskScore == RiskEngine_calculateRiskScore(components, e.weights)
        action == RiskEngine_determineAction(riskScore, components, e.thresholds)
    IN  [userId |-> call.request.userId,
         riskScore |-> riskScore,
         riskLevel |-> RiskEngine_getRiskLevel(riskScore, e.thresholds),
         action |-> action,
         allowed |-> IsAllowed(action),
         components |->
            [behavior |-> [score |-> call.behavior.riskScore,
                           factors |-> call.behavior.factors],
             patterns |-> [score |-> call.patterns.riskScore,
                           attackType |-> call.patterns.attackType],
             rateLimit |-> [allowed |-> call.rateLimit.allowed,
                            remaining |-> call.rateLimit.remaining],
             fingerprint |-> [score |-> call.fingerprint.anomalyScore.score,
                              isBot |-> call.fingerprint.isBot.isBot,
                              fingerprint |-> call.fingerprint.fingerprint],
             reputation |-> [score |-> call.reputation.score,
                             history |-> call.reputation.history]]]

\* triggerHooks with the calls of the hooks outside any try block: the
\* first hook that throws ends it.
RiskEngine_triggerHooks_uncaught(e, decision) ==
    LET due == SelectSeq(HookNames, LAMBDA h : HookIsDue(h, e, decision))
        throwers == {i \in 1..Len(due) : e.hooks[due[i]] = "throws"}
        first == CHOOSE i \in throwers : \A j \in throwers : i <= j
    IN  IF throwers = {} THEN [fired |-> due, threw |-> FALSE]
        ELSE [fired |-> SubSeq(due, 1, first), threw |-> TRUE]

\* triggerHooks(decision): each hook that is due is called inside its own
\* try block with an empty catch; fired lists the hooks called, threw says
\* whether an exception left triggerHooks.
RiskEngine_triggerHooks(e, decision) ==
    [fired |-> SelectSeq(HookNames, LAMBDA h : HookIsDue(h, e, decision)),
     threw |-> FALSE]

RiskEngine_evaluateFinish_snapshot(w, call, objId, t) ==
    LET decision == RiskEngine_decision(call, w.engine)
        userId == call.request.userId
        held == IF call.reputation.id = 0
                THEN [call.reputation EXCEPT !.id = objId] ELSE call.reputation
        st0 == MemoryStore_set(w.store, ReputationKey(userId), Obj(held),
                               w.store.defaultTTL, t)
        u == RiskEngine_updateReputation(st0, userId, decision, objId, t)
        h == RiskEngine_triggerHooks(w.engine, decision)
    IN  [w |-> [w EXCEPT !.store = u.s,
                         !.engine.globalStats = RiskEngine_updateStats(@, decision)],
         r |-> IF h.threw THEN Null ELSE decision,
         hooks |-> h.fired,
         reputation |-> u.r]

\* evaluate after Promise.all: the decision, updateStats, updateReputation,
\* triggerHooks. An exception that leaves triggerHooks rejects the promise
\* evaluate returned (r is Null then); hooks lists the hooks called.
RiskEngine_evaluateFinish(w, call, objId, t) ==
    LET decision == RiskEngine_decision(call, w.engine)
        u == RiskEngine_updateReputation(w.store, call.request.userId, decision, objId, t)
        h == RiskEngine_triggerHooks(w.engine, decision)
    IN  [w |-> [w EXCEPT !.store = u.s,
                         !.engine.globalStats = RiskEngine_updateStats(@, decision)],
         r |-> IF h.threw THEN Null ELSE decision,
         hooks |-> h.fired,
         reputation |-> u.r]

\* Object.assign(target, source)
ObjectAssign(target, source) ==
    [k \in DOMAIN target \cup DOMAIN source |->
        IF k \in DOMAIN source THEN source[k] ELSE target[k]]

RiskEngine_setThresholds(w, thresholds) ==
    [w EXCEPT !.engine.thresholds = ObjectAssign(@, thresholds)]

RiskEngine_setWeights(w, weights) ==
    [w EXCEPT !.engine.weights = ObjectAssign(@, weights)]

RiskEngine_resetUser(w, userId) ==
    [w EXCEPT !.store = MemoryStore_delete(MemoryStore_delete(@, EventsKey(userId)),
                                           ReputationKey(userId)),
              !.engine.behaviorProfiles = BehaviorAnalyzer_clearProfile(@, userId),
              !.rateLimiter = RateLimiter_reset(@, userId)]

\* destroy()
RiskEngine_destroy(w) ==
    [w EXCEPT !.store = MemoryStore_destroy(@),
              !.rateLimiter = RateLimiter_destroy(@)]

\* ------------------------------------------- the store on its own (SpecStore)

Keys == {"", "a", "b"}
SetValues == {Num(1), Arr(<<>>)}
\* ttl arguments of set(): the instance default, and 0 (no expiry).
TtlArgs == {TTL, 0}
\* Documents handed to import(): every key, without and with an expiration.
ImportDocs ==
    {<<[key |-> "", value |-> Num(7), expiration |-> e],
       [key |-> "a", value |-> Num(7), expiration |-> e],
       [key |-> "b", value |-> Num(7), expiration |-> e]>> : e \in {0, TTL + 1}}
    \cup {<<[key |-> "a", value |-> Num(7), expiration |-> StartTime]>>}

\* No evaluate call is in flight.
NoBatch == [open |-> FALSE]

NoOp == [op |-> "init", key |-> "", r |-> Null, keys |-> <<>>]
Did(op, key, r) == [op |-> op, key |-> key, r |-> r, keys |-> <<>>]

StoreStep(s, l) ==
    /\ steps < MaxSteps
    /\ steps' = steps + 1
    /\ store' = s
    /\ last' = l
    /\ UNCHANGED <<now, rateLimiter, run, engine, calls, batch, http, models, eventLog>>

InitStore ==
    /\ now = StartTime
    /\ steps = 0
    /\ store = MemoryStore_new(MaxSize, TTL)
    /\ last = NoOp
    /\ rateLimiter = RateLimiter_new(DefaultLimit, WindowSize)
    /\ run = <<>>
    /\ engine = RiskEngine_new.engine
    /\ calls = <<>>
    /\ batch = NoBatch
    /\ http = <<>>
    /\ models = <<>>
    /\ eventLog = <<>>

Tick ==
    /\ now < MaxClock
    /\ now' = now + 1
    /\ last' = Did("tick", "", Null)
    /\ UNCHANGED <<steps, store, rateLimiter, run, engine, calls, batch, http, models, eventLog>>

Set ==
    \E key \in Keys, value \in SetValues, ttl \in TtlArgs :
        StoreStep(MemoryStore_set(store, key, value, ttl, now),
                  [Did("set", key, True) EXCEPT !.keys = <<ttl, MemoryStore_keys(store)>>])

Get ==
    \E key \in Keys :
        LET g == MemoryStore_get(store, key, now)
        IN  StoreStep(g.s, Did("get", key, g.r))

Has ==
    \E key \in Keys :
        LET g == MemoryStore_has(store, key, now)
        IN  StoreStep(g.s, Did("has", key, g.r))

GetWithMetadata ==
    \E key \in Keys :
        LET g == MemoryStore_getWithMetadata(store, key, now)
        IN  StoreStep(g.s, Did("getWithMetadata", key, g.r))

\* keys(), values(), entries() and export(): each lists the entries of the
\* Map, so one action stands for the four.
List == StoreStep(store, [Did("list", "", Null) EXCEPT !.keys = MemoryStore_keys(store)])

Delete ==
    \E key \in Keys :
        StoreStep(MemoryStore_delete(store, key), Did("delete", key, True))

Update ==
    \E key \in Keys, upd \in {"same", "zero"} :
        LET g == MemoryStore_update(store, key, upd, now)
            \* the expiry time of the entry the call found under key
            found == IF MapHas(store.map, key) /\ key \in DOMAIN store.expirations
                     THEN <<store.expirations[key]>> ELSE <<>>
        IN  StoreStep(g.s, [Did("update", key, g.r) EXCEPT !.keys = found])

Increment ==
    \E key \in Keys, field \in {"", "n"} :
        LET g == MemoryStore_increment(store, key, field, 1, now)
        IN  StoreStep(g.s, Did("increment", key, g.r))

Push ==
    \E key \in Keys, maxLength \in {Infinity, 0, 1, 2} :
        LET g == MemoryStore_push(store, key, Num(steps), maxLength, now)
        IN  StoreStep(g.s, [Did("push", key, g.r) EXCEPT !.keys = <<maxLength>>])

Clear == StoreStep(MemoryStore_clear(store), Did("clear", "", Null))

Cleanup == StoreStep(MemoryStore_cleanup(store, now), Did("cleanup", "", Null))

Import ==
    \E data \in ImportDocs :
        StoreStep(MemoryStore_import(store, data, now), Did("import", "", Null))

vars == <<now, steps, store, last, rateLimiter, run, engine, calls, batch, http, models, eventLog>>

NextStore ==
    \/ Tick \/ Set \/ Get \/ Has \/ GetWithMetadata \/ List \/ Delete
    \/ Update \/ Increment \/ Push \/ Clear \/ Cleanup \/ Import

SpecStore == InitStore /\ [][NextStore]_vars

\* ------------------------------------------------------ claims on the store

\* The entry under key has an expiry time that is now or earlier.
ExpiresAtOrBefore(key, t) ==
    key \in DOMAIN store.expirations /\ store.expirations[key] <= t

\* C6: no read of the store (get, has, getWithMetadata, keys, values,
\* entries, export) returns or lists an entry whose expiresAt <= now, and a
\* get or has on such an entry leaves it deleted.
C6_NoExpiredEntryIsRead ==
    /\ (last.op \in {"get", "getWithMetadata"} /\ last.r # Null)
          => ~ExpiresAtOrBefore(last.key, now)
    /\ (last.op = "has" /\ last.r = True) => ~ExpiresAtOrBefore(last.key, now)
    /\ last.op = "list"
          => \A i \in 1..Len(last.keys) : ~ExpiresAtOrBefore(last.keys[i], now)
    /\ last.op \in {"get", "has"}
          => ~(MapHas(store.map, last.key) /\ ExpiresAtOrBefore(last.key, now))

\* A get has just returned the value of an entry that carries an expiry.
C6_Witness ==
    /\ last.op = "get" /\ last.r # Null
    /\ last.key \in DOMAIN store.expirations

\* C7: after any sequence of store operations the number of stored entries
\* never exceeds maxSize.
C7_SizeWithinCapacity == Len(store.map) <= MaxSize

\* A set has run on a store that was full.
C7_Witness == last.op = "set" /\ store.stats.evictions > 0

\* C8: a set on a store holding maxSize entries evicts exactly one entry,
\* one whose last access is the least of all entries (read here without
\* the demand that the least be unique), and adds one to the evictions
\* counter.
C8_SetEvictsTheLeastRecentlyUsed ==
    [][(last'.op = "set" /\ steps' = steps + 1 /\ Len(store.map) = MaxSize)
         => \E i \in 1..Len(store.map) :
              /\ \A j \in 1..Len(store.map) :
                     store.map[j].accessedAt >= store.map[i].accessedAt
              /\ KeySet(store'.map) =
                     (KeySet(store.map) \ {store.map[i].key}) \cup {last'.key}
              /\ store'.stats.evictions = store.stats.evictions + 1]_vars

\* A set on a full store has evicted an entry that a get had refreshed
\* after the entry that was inserted after it.
C8_Witness ==
    /\ last.op = "set" /\ store.stats.evictions = 1
    /\ store.stats.hits > 0
    /\ Len(store.map) = MaxSize

\* The list the store holds under key (the store's own view: no expiry is
\* looked at); <<>> when it holds none or a value that is no list.
ListAt(st, key) ==
    IF MapHas(st.map, key) /\ MapGet(st.map, key).value.t = "arr"
    THEN MapGet(st.map, key).value.v ELSE <<>>

\* The maxLength the last push was handed.
PushedMaxLength == last.keys[1]

\* C24: after push(key, v, maxLen) has returned true the key holds a list
\* of at most maxLen values, for any maxLen, and the list is the end of the
\* list held before with v appended: the most recently pushed values in the
\* order of their arrival.
C24_PushKeepsTheLatest ==
    [][(last'.op = "push" /\ last'.r = True) =>
         LET maxLen == last'.keys[1]
             before == Append(ListAt(store, last'.key), Num(steps))
             after == ListAt(store', last'.key)
         IN  /\ MapHas(store'.map, last'.key)
             /\ MapGet(store'.map, last'.key).value.t = "arr"
             /\ maxLen # Infinity => Len(after) <= maxLen
             /\ Len(after) <= Len(before)
             /\ after = SubSeq(before, Len(before) - Len(after) + 1, Len(before))]_vars

\* The third push under a key, with maxLength 2, has left the second and
\* the third value.
C24_Witness ==
    /\ last.op = "push" /\ PushedMaxLength = 2
    /\ ListAt(store, last.key) = <<Num(1), Num(2)>>

\* The store holds an entry under key that get would return at time t.
IsLive(st, key, t) == MapHas(st.map, key) /\ ~IsExpired(st, key, t)

\* C25: push on a key that is missing or holds a value that is no
\* list leaves the one-element list [v] under the key.
C25_PushCreatesAList ==
    [][(/\ last'.op = "push"
        /\ \/ ~MapHas(store.map, last'.key)
           \/ MapGet(store.map, last'.key).value.t # "arr")
         => /\ MapHas(store'.map, last'.key)
            /\ MapGet(store'.map, last'.key).value = Arr(<<Num(steps)>>)]_vars

\* A push has been refused on a key that holds a number, after a push on
\* a missing key had created a list under another key.
C25_Witness ==
    /\ last.op = "push" /\ last.r = False
    /\ MapHas(store.map, last.key) /\ MapGet(store.map, last.key).value.t = "num"
    /\ \E i \in 1..Len(store.map) :
          store.map[i].value.t = "arr" /\ Len(store.map[i].value.v) = 1

\* The keys of the store with the value each holds.
KeyValues(st) == {<<st.map[i].key, st.map[i].value>> : i \in 1..Len(st.map)}

\* C26: push on a key that holds a value that is no list, and update on a
\* key that is missing or whose entry has expired (expiresAt <= now),
\* return false and leave the keys, the values and the expirations of the
\* store as they were.
C26_MismatchReturnsFalseUnchanged ==
    [][(\/ /\ last'.op = "push"
            /\ MapHas(store.map, last'.key)
            /\ ~ExpiresAtOrBefore(last'.key, now)
            /\ MapGet(store.map, last'.key).value.t # "arr"
         \/ /\ last'.op = "update"
            /\ ~MapHas(store.map, last'.key) \/ ExpiresAtOrBefore(last'.key, now))
         => /\ last'.r = False
            /\ KeyValues(store') = KeyValues(store)
            /\ store'.expirations = store.expirations]_vars

\* update has returned false for a key whose entry had expired.
C26_Witness ==
    /\ last.op = "update" /\ last.r = False
    /\ last.keys # <<>> /\ last.keys[1] < now

\* C29: no operation of the store, clear and cleanup included, lowers the
\* hit counter or the miss counter, and a get adds exactly one to exactly
\* one of them: to hits when it returns a value, to misses when it returns
\* null.
C29_HitsAndMissesOnlyGrow ==
    [][/\ store'.stats.hits >= store.stats.hits
       /\ store'.stats.misses >= store.stats.misses
       /\ last'.op = "get" =>
             IF last'.r # Null
             THEN /\ store'.stats.hits = store.stats.hits + 1
                  /\ store'.stats.misses = store.stats.misses
             ELSE /\ store'.stats.misses = store.stats.misses + 1
                  /\ store'.stats.hits = store.stats.hits]_vars

\* The store has been cleared after a get that returned a value and a get
\* that returned null: both counters still stand at 1.
C29_Witness ==
    /\ last.op = "clear"
    /\ store.stats.hits = 1 /\ store.stats.misses = 1
    /\ store.map = <<>>

\* The ttl argument of the set that has just run.
SetTtl == last.keys[1]

\* C35: an entry written by set(key, value, ttl) with ttl <= 0 has no expiry:
\* at no later time does get or has hide it or cleanup remove it, whatever
\* expiry an earlier entry under the key had.
C35_NoTtlMeansNoExpiry ==
    (last.op = "set" /\ SetTtl <= 0)
        => \A t \in now..(MaxClock + 1) :
               /\ MemoryStore_get(store, last.key, t).r # Null
               /\ MemoryStore_has(store, last.key, t).r = True
               /\ MapHas(MemoryStore_cleanup(store, t).map, last.key)

\* set(key, value, 0) has just overwritten an entry that had an expiry, and
\* the new entry still carries that expiry, which lies in the future.
C35_Witness ==
    /\ last.op = "set" /\ SetTtl = 0
    /\ MapHas(store.map, last.key)
    /\ last.key \in DOMAIN store.expirations
    /\ store.expirations[last.key] > now
    /\ MemoryStore_get(store, last.key, store.expirations[last.key] + 1).r = Null

\* The keys the Map held when the set that has just run was called.
SetFound == {last.keys[2][i] : i \in 1..Len(last.keys[2])}

\* The entry under key is in the Map and its expiry has not passed.
Live(s, key, t) == MapHas(s.map, key) /\ ~IsExpired(s, key, t)

\* C36: a set, push, update or increment on a key that is present removes
\* no other key from the store, also when the store is at capacity.
C36_OverwriteKeepsOtherKeys ==
    [][\A key \in Keys :
          (/\ last'.op \in {"set", "push", "update", "increment"}
           /\ last'.key = key
           /\ Live(store, key, now))
              => \A other \in KeySet(store.map) \ {key} : MapHas(store'.map, other)]_vars

\* A set has just overwritten a key of a full store, and a key the store
\* held before the call is gone.
C36_Witness ==
    /\ last.op = "set"
    /\ last.key \in SetFound
    /\ Cardinality(SetFound) = MaxSize
    /\ \E other \in SetFound \ {last.key} : ~MapHas(store.map, other)

\* ---------------------------------- the rate limiter on its own (SpecRL)

Identifiers == {"u1", "u1:/api"}
\* options of check(): none, an explicit limit, a riskScore of 0.5.
CheckOptions == {NoOptions, [limit |-> 1, riskScore |-> 0], [limit |-> 0, riskScore |-> 500]}
UserLimits == {3}

\* What has been asked of an identifier since it had no bucket, penalty or
\* history: the number of check calls, the time, limit and options of the
\* first, whether every call carried the same options under the same user
\* limit, and the times of the calls that were admitted.
RunFresh ==
    [n |-> 0, first |-> 0, limit |-> 0, options |-> NoOptions, same |-> TRUE,
     admitted |-> <<>>]

RunAfterCheck(g, options, r, t) ==
    IF g.n = 0
    THEN [n |-> 1, first |-> t, limit |-> r.limit, options |-> options, same |-> TRUE,
          admitted |-> IF r.allowed THEN <<t>> ELSE <<>>]
    ELSE [g EXCEPT !.n = @ + 1,
                   !.same = @ /\ options = g.options,
                   !.admitted = IF r.allowed THEN Append(@, t) ELSE @]

IsFresh(rl, identifier) ==
    /\ ~FnHas(rl.buckets, identifier)
    /\ ~FnHas(rl.penalties, identifier)
    /\ ~FnHas(rl.history, identifier)

RLStep(rl, l, g) ==
    /\ steps < MaxCalls
    /\ steps' = steps + 1
    /\ rateLimiter' = rl
    /\ last' = l
    /\ run' = [id \in DOMAIN g |-> IF IsFresh(rl, id) THEN RunFresh ELSE g[id]]
    /\ UNCHANGED <<now, store, engine, calls, batch, http, models, eventLog>>

InitRL ==
    /\ now = StartTime
    /\ steps = 0
    /\ store = MemoryStore_new(MaxSize, TTL)
    /\ last = NoOp
    /\ rateLimiter = RateLimiter_new(DefaultLimit, WindowSize)
    /\ run = [id \in Identifiers |-> RunFresh]
    /\ engine = RiskEngine_new.engine
    /\ calls = <<>>
    /\ batch = NoBatch
    /\ http = <<>>
    /\ models = <<>>
    /\ eventLog = <<>>

Check ==
    \E identifier \in Identifiers, options \in CheckOptions :
        LET c == RateLimiter_check(rateLimiter, identifier, options, now)
        IN  RLStep(c.s, Did("check", identifier, c.r),
                   [run EXCEPT ![identifier] = RunAfterCheck(@, options, c.r, now)])

SetUserLimit ==
    \E identifier \in Identifiers, limit \in UserLimits :
        RLStep(RateLimiter_setUserLimit(rateLimiter, identifier, limit),
               Did("setUserLimit", identifier, Null),
               [run EXCEPT ![identifier].same = @ /\ run[identifier].n = 0])

Reset ==
    \E identifier \in Identifiers :
        RLStep(RateLimiter_reset(rateLimiter, identifier),
               Did("reset", identifier, Null), run)

RLCleanup ==
    RLStep(RateLimiter_cleanup(rateLimiter, now), Did("cleanup", "", Null), run)

NextRL == Tick \/ Check \/ SetUserLimit \/ Reset \/ RLCleanup

SpecRL == InitRL /\ [][NextRL]_vars

\* One caller checks one identifier again and again (SpecRLOne).
CheckOne ==
    \E options \in CheckOptions :
        LET c == RateLimiter_check(rateLimiter, "u1", options, now)
        IN  /\ steps < MaxChecks
            /\ steps' = steps + 1
            /\ rateLimiter' = c.s
            /\ last' = Did("check", "u1", c.r)
            /\ run' = [run EXCEPT !["u1"] = RunAfterCheck(@, options, c.r, now)]
            /\ UNCHANGED <<now, store, engine, calls, batch, http, models, eventLog>>

SpecRLOne == InitRL /\ [][Tick \/ CheckOne]_vars

\* ------------------------- the buckets of the rate limiter (SpecBuckets)

\* In this specification run maps the key of a bucket to the time the
\* bucket was last used, by any of the four algorithms.
BucketStep(a, key, l) ==
    /\ steps < MaxBucketOps
    /\ steps' = steps + 1
    /\ rateLimiter' = a.s
    /\ run' = FnSet(run, key, now)
    /\ last' = Did(l, key, a.r)
    /\ UNCHANGED <<now, store, engine, calls, batch, http, models, eventLog>>

InitBuckets ==
    /\ now = StartTime
    /\ steps = 0
    /\ store = MemoryStore_new(MaxSize, TTL)
    /\ last = NoOp
    /\ rateLimiter = RateLimiter_new(DefaultLimit, WindowSize)
    /\ run = <<>>
    /\ engine = RiskEngine_new.engine
    /\ calls = <<>>
    /\ batch = NoBatch
    /\ http = <<>>
    /\ models = <<>>
    /\ eventLog = <<>>

BucketCheck == BucketStep(RateLimiter_check(rateLimiter, "a", NoOptions, now), "a", "check")

SlidingWindowLog ==
    BucketStep(RateLimiter_slidingWindowLog(rateLimiter, "b", NoOptions, now), "b",
               "slidingWindowLog")

TokenBucket ==
    BucketStep(RateLimiter_tokenBucket(rateLimiter, "a", now), "token:a", "tokenBucket")

LeakyBucket ==
    BucketStep(RateLimiter_leakyBucket(rateLimiter, "a", now), "leaky:a", "leakyBucket")

\* Time goes by: one step of the clock, or just more than 10 windows.
Elapse ==
    \E d \in {1, StaleFactor * WindowSize + 1} :
        /\ steps < MaxBucketOps
        /\ steps' = steps + 1
        /\ now' = now + d
        /\ last' = Did("elapse", "", Null)
        /\ UNCHANGED <<store, rateLimiter, run, engine, calls, batch, http, models,
                       eventLog>>

\* The interval timer fires: cleanup().
BucketCleanup ==
    /\ steps < MaxBucketOps
    /\ steps' = steps + 1
    /\ rateLimiter' = RateLimiter_cleanup(rateLimiter, now)
    /\ last' = Did("cleanup", "", Null)
    /\ UNCHANGED <<now, store, run, engine, calls, batch, http, models, eventLog>>

NextBuckets ==
    \/ BucketCheck \/ SlidingWindowLog \/ TokenBucket \/ LeakyBucket
    \/ Elapse \/ BucketCleanup

SpecBuckets == InitBuckets /\ [][NextBuckets]_vars

\* C23: a cleanup pass deletes exactly the buckets whose last use is more
\* than 10 * windowSize in the past: none of them remains, whatever its
\* kind, and no bucket used since then is deleted.
C23_CleanupDeletesExactlyTheStale ==
    [][last'.op = "cleanup" =>
         \A key \in DOMAIN rateLimiter.buckets :
            (key \notin DOMAIN rateLimiter'.buckets)
                <=> (now - run[key] > StaleFactor * rateLimiter.windowSize)]_vars

\* A cleanup pass has run while the rate limiter held a bucket of check()
\* last used more than 10 windows before, which it has deleted, and a
\* bucket of another kind.
C23_Witness ==
    /\ last.op = "cleanup"
    /\ FnHas(run, "a") /\ now - run["a"] > StaleFactor * rateLimiter.windowSize
    /\ ~FnHas(rateLimiter.buckets, "a")
    /\ \E key \in DOMAIN run : key # "a"

\* ----------------------------------------------- claims on the rate limiter

\* C4: for a fresh identifier and unchanged options, check allows each of
\* the first `limit` calls made less than windowSize after the first, and
\* denies call number limit + 1 made inside that same window.
C4_FirstLimitCallsAllowedNextDenied ==
    last.op = "check" =>
        LET g == run[last.key]
        IN  (g.same /\ now - g.first < WindowSize) =>
                /\ g.n <= g.limit => last.r.allowed
                /\ g.n = g.limit + 1 => ~last.r.allowed

\* Call number limit + 1, with a limit of two or more, has been answered
\* inside the window of the first call.
C4_Witness ==
    /\ last.op = "check"
    /\ run[last.key].same /\ now - run[last.key].first < WindowSize
    /\ run[last.key].limit >= 2
    /\ run[last.key].n = run[last.key].limit + 1
    /\ ~last.r.allowed

\* The admitted calls of an identifier that are less than windowSize old.
AdmittedInWindow(identifier) ==
    SelectSeq(run[identifier].admitted, LAMBDA ts : now - ts < WindowSize)

\* C5: the sliding window holds exactly the admitted requests less than
\* windowSize old (a denied request is never counted), the capacity left is
\* the limit less that number, and once windowSize has passed since every
\* admitted request the next check is allowed with remaining = limit - 1.
C5_WindowCountsAdmittedRequests ==
    last.op = "check" =>
        LET g == run[last.key]
            inWindow == AdmittedInWindow(last.key)
            earlier == IF last.r.allowed
                       THEN SubSeq(g.admitted, 1, Len(g.admitted) - 1)
                       ELSE g.admitted
        IN  /\ rateLimiter.buckets[last.key].requests = inWindow
            /\ last.r.currentCount = Len(inWindow)
            /\ last.r.allowed => last.r.remaining = last.r.limit - Len(inWindow)
            /\ ~last.r.allowed => Len(inWindow) >= last.r.limit
            /\ (\A i \in 1..Len(earlier) : now - earlier[i] >= WindowSize)
                  => last.r.allowed /\ last.r.remaining = last.r.limit - 1

\* A check has been admitted after an earlier admitted request and a denied
\* one, all the earlier admitted requests having left the window.
C5_Witness ==
    /\ last.op = "check" /\ last.r.allowed
    /\ Len(run[last.key].admitted) >= 2
    /\ run[last.key].n > Len(run[last.key].admitted)
    /\ \A i \in 1..(Len(run[last.key].admitted) - 1) :
           now - run[last.key].admitted[i] >= WindowSize
    /\ last.r.remaining = last.r.limit - 1

\* C13: every stored penalty lies in [1, 10], and a check lowers the
\* penalty of an identifier (an absent penalty counting as 1) only when it
\* is that identifier's check and it is allowed.
C13_PenaltyBoundedAndDecaysOnAllowed ==
    /\ [](\A k \in DOMAIN rateLimiter.penalties :
             /\ rateLimiter.penalties[k] >= Scale
             /\ rateLimiter.penalties[k] <= MaxPenalty * Scale)
    /\ [][\A k \in Identifiers :
             (/\ last'.op = "check" /\ steps' = steps + 1
              /\ PenaltyOf(rateLimiter', k) < PenaltyOf(rateLimiter, k))
                 => last'.key = k /\ last'.r.allowed]_vars

\* A penalty had reached 10 and an allowed check has lowered it once.
C13_Witness ==
    /\ last.op = "check" /\ last.r.allowed
    /\ rateLimiter.buckets[last.key].violations >= 6
    /\ PenaltyOf(rateLimiter, last.key) = (MaxPenalty * Scale * PenaltyDecay) \div Scale

\* C14: every check that denies carries retryAfter > 0; so does the check
\* that follows `limit` admitted ones inside one window.
C14_DeniedCarriesRetryAfter ==
    (last.op = "check" /\ ~last.r.allowed) => last.r.retryAfter > 0

\* A check has denied with a retryAfter above 0.
C14_Witness ==
    last.op = "check" /\ ~last.r.allowed /\ last.r.retryAfter > 0

\* C15: an identifier that was fresh, is checked with the same options every
\* time and has been denied three times or more has a penalty above 1 and
\* an effective limit below its base limit.
C15_RepeatedDenialsArePenalised ==
    (/\ last.op = "check" /\ ~last.r.allowed
     /\ run[last.key].same
     /\ run[last.key].n - Len(run[last.key].admitted) >= 3)
        => LET options == run[last.key].options
               baseLimit == IF options.limit # 0 THEN options.limit
                            ELSE rateLimiter.defaultLimit
           IN  /\ PenaltyOf(rateLimiter, last.key) > Scale
               /\ RateLimiter_getEffectiveLimit(rateLimiter, last.key, options) < baseLimit

\* An identifier checked without options has been denied for the third time
\* in a row after its first `limit` checks were admitted.
C15_Witness ==
    /\ last.op = "check" /\ ~last.r.allowed
    /\ run[last.key].same /\ run[last.key].options = NoOptions
    /\ Len(run[last.key].admitted) = DefaultLimit
    /\ run[last.key].n = DefaultLimit + 3

\* ------------------------------------------------ the engine (Spec)

Users == {"u1", "u2"}
Endpoints == {"/api"}
RequestKinds == {"browser", "script", "bot"}
\* The requests callers send: u1 sends each kind, u2 browses.
Requests ==
    {r \in [userId : Users, endpoint : Endpoints, kind : RequestKinds] :
        r.userId = "u1" \/ r.kind = "browser"}

\* What the factor detectors of the behaviour analyser and the pattern
\* detectors may report: nothing; a velocity factor and a burst; an attack.
Findings ==
    {[factors |-> <<>>, patterns |-> <<>>],
     [factors |-> <<[type |-> "velocity", score |-> 800]>>,
      patterns |-> <<[type |-> "burst", attackName |-> "", risk |-> 400]>>],
     [factors |-> <<>>,
      patterns |-> <<[type |-> "attack", attackName |-> "apiAbuse", risk |-> 900]>>]}

\* The detectors run only on a list of minSamples (minPatternLength)
\* events or more; below that their findings are not read.
DetectorInputs(eventCount) ==
    {[factors |-> IF eventCount >= MinSamples THEN f.factors ELSE <<>>,
      patterns |-> IF eventCount >= MinPatternLength THEN f.patterns ELSE <<>>] :
        f \in Findings}

\* Arguments of setWeights and setThresholds.
WeightUpdates ==
    {[behavior |-> 0, patterns |-> 0, rateLimit |-> 0, fingerprint |-> 0, reputation |-> 0],
     [behavior |-> -250]}
ThresholdUpdates == {[low |-> 800]}

World == [store |-> store, rateLimiter |-> rateLimiter, engine |-> engine]

\* reputation.totalRequests of the record the store holds for userId, and
\* the length of the event list it holds (0 when it holds none).
TotalRequestsOf(st, userId) ==
    IF MapHas(st.map, ReputationKey(userId))
    THEN MapGet(st.map, ReputationKey(userId)).value.v.totalRequests ELSE 0
EventCountOf(st, userId) ==
    IF MapHas(st.map, EventsKey(userId))
    THEN Len(MapGet(st.map, EventsKey(userId)).value.v) ELSE 0

\* The counters at the moment the first of the calls in flight is invoked;
\* n counts the calls of each identity invoked since, clean says that
\* nothing but evaluate has been called since.
BatchStart ==
    [open |-> TRUE, clean |-> TRUE, started |-> 0, n |-> [u \in Users |-> 0],
     totalEvaluations |-> engine.globalStats.totalEvaluations,
     totalRequests |-> [u \in Users |-> TotalRequestsOf(store, u)],
     events |-> [u \in Users |-> EventCountOf(store, u)],
     evictions |-> store.stats.evictions]

\* The number of events recordEvent will leave under events:userId.
EventCountAfterRecord(request) ==
    Len(EventsOf(MemoryStore_get(
            RiskEngine_recordEvent(store, request.userId, request, now),
            EventsKey(request.userId), now)))

Init ==
    /\ now = StartTime
    /\ steps = 0
    /\ store = RiskEngine_new.store
    /\ rateLimiter = RiskEngine_new.rateLimiter
    /\ engine = RiskEngine_new.engine
    /\ calls = <<>>
    /\ batch = NoBatch
    /\ http = <<>>
    /\ models = <<>>
    /\ eventLog = <<>>
    /\ last = NoOp
    /\ run = <<>>

SetWorld(w) ==
    /\ store' = w.store
    /\ rateLimiter' = w.rateLimiter
    /\ engine' = w.engine

RemoveAt(seq, i) == [j \in 1..(Len(seq) - 1) |-> IF j < i THEN seq[j] ELSE seq[j + 1]]

\* A caller invokes evaluate(request): the call runs to its first await.
\* afterReset: the call directly follows resetUser of its identity, no call
\* being in flight; alone: no other call of its identity overlaps it;
\* events: the length of the event list its detectors were handed.
EvaluateStart ==
    \E request \in Requests :
        \E inputs \in DetectorInputs(EventCountAfterRecord(request)) :
            LET e == RiskEngine_evaluateStart(World, request, inputs, now)
                ghost == [afterReset |-> /\ last.op = "resetUser"
                                         /\ last.key = request.userId
                                         /\ calls = <<>>,
                          events |-> EventCountAfterRecord(request),
                          alone |-> \A i \in 1..Len(calls) :
                                        calls[i].request.userId # request.userId]
            IN  /\ steps < MaxOps
                /\ Len(calls) < MaxInFlight
                /\ steps' = steps + 1
                /\ SetWorld(e.w)
                /\ calls' = Append([i \in 1..Len(calls) |->
                                IF calls[i].request.userId = request.userId
                                THEN [calls[i] EXCEPT !.ghost.alone = FALSE]
                                ELSE calls[i]],
                             [ghost |-> ghost] @@ e.call)
                /\ last' = Did("evaluateStart", request.userId, Null)
                /\ batch' = [(IF calls = <<>> THEN BatchStart ELSE batch)
                                EXCEPT !.started = @ + 1, !.n[request.userId] = @ + 1]
                /\ UNCHANGED <<now, run, http, models, eventLog>>

\* The continuation of checkRateLimit of a call in flight.
EvaluateCheckRateLimit ==
    \E i \in 1..Len(calls) :
        /\ calls[i].pc = "checkRateLimit"
        /\ LET c == RiskEngine_checkRateLimit(World, calls[i], now)
           IN  /\ SetWorld(c.w)
               /\ calls' = [calls EXCEPT ![i] = c.call]
        /\ last' = Did("checkRateLimit", calls[i].request.userId, Null)
        /\ UNCHANGED <<now, steps, run, batch, http, models, eventLog>>

\* The continuation of evaluate of a call whose five results are in. The
\* reputation record it writes is the object the calls in flight that read
\* it from the store hold: they see the update.
EvaluateFinish ==
    \E i \in 1..Len(calls) :
        /\ calls[i].pc = "decide"
        /\ LET f == RiskEngine_evaluateFinish(World, calls[i], steps, now)
               rest == RemoveAt(calls, i)
           IN  /\ SetWorld(f.w)
               /\ calls' = [j \in 1..Len(rest) |->
                               IF /\ rest[j].request.userId = calls[i].request.userId
                                  /\ rest[j].reputation.id = f.reputation.id
                               THEN [rest[j] EXCEPT !.reputation = f.reputation]
                               ELSE rest[j]]
               /\ last' = [Did("evaluate", calls[i].request.userId, f.r)
                              EXCEPT !.keys = <<calls[i], f.hooks>>]
        /\ UNCHANGED <<now, steps, run, batch, http, models, eventLog>>

\* The continuations of a call in flight run as microtasks of one turn of
\* the event loop: the clock, read in milliseconds, stands still meanwhile.
EngineTick ==
    /\ now < EngineMaxClock
    /\ calls = <<>>
    /\ now' = now + 1
    /\ last' = Did("tick", "", Null)
    /\ batch' = NoBatch
    /\ UNCHANGED <<steps, store, rateLimiter, run, engine, calls, http, models, eventLog>>

EngineStep(w, l) ==
    /\ steps < MaxOps
    /\ steps' = steps + 1
    /\ SetWorld(w)
    /\ last' = l
    /\ batch' = IF calls = <<>> THEN NoBatch ELSE [batch EXCEPT !.clean = FALSE]
    /\ UNCHANGED <<now, run, calls, http, models, eventLog>>

ResetUser ==
    \E userId \in Users :
        EngineStep(RiskEngine_resetUser(World, userId), Did("resetUser", userId, Null))

SetWeights ==
    \E weights \in WeightUpdates :
        EngineStep(RiskEngine_setWeights(World, weights), Did("setWeights", "", Null))

SetThresholds ==
    \E thresholds \in ThresholdUpdates :
        EngineStep(RiskEngine_setThresholds(World, thresholds),
                   Did("setThresholds", "", Null))

Next ==
    \/ EngineTick \/ EvaluateStart \/ EvaluateCheckRateLimit \/ EvaluateFinish
    \/ ResetUser \/ SetWeights \/ SetThresholds

Spec == Init /\ [][Next]_vars

\* ---------------------------------------------------- claims on the engine

\* The call whose decision the last step returned, and the hooks it called.
LastCall == last.keys[1]
LastHooks == last.keys[2]

\* C1: every decision evaluate returns has its riskScore in [0, 1].
C1_RiskScoreInUnitInterval ==
    last.op = "evaluate" => last.r.riskScore >= 0 /\ last.r.riskScore <= Scale

\* A decision has been returned with the score 1, the weight of the
\* behaviour component being negative and the weighted mean above 1.
C1_Witness ==
    /\ last.op = "evaluate"
    /\ engine.weights.behavior < 0
    /\ LastCall.behavior.reliable
    /\ last.r.riskScore = Scale

C3_FloorRules ==
    last.op = "evaluate" =>
        /\ last.r.components.patterns.attackType # "" => last.r.riskScore >= 600
        /\ last.r.components.fingerprint.isBot => last.r.riskScore >= 700
        /\ ~last.r.components.rateLimit.allowed => last.r.riskScore >= 500

\* A decision on a bot has been returned with the weighted mean below the
\* floor of 0.7.
C3_Witness ==
    /\ last.op = "evaluate"
    /\ last.r.components.fingerprint.isBot
    /\ last.r.riskScore = 700
    /\ engine.weights = RiskEngine_new.engine.weights

\* C9: after resetUser(id) nothing of id remains - not its event list, its
\* reputation record, its behaviour profile, nor any rate-limiter bucket,
\* penalty or history under the identifiers evaluate uses for id.
C9_ResetUserRemovesAllState ==
    (last.op = "resetUser" /\ calls = <<>>) =>
        /\ ~MapHas(store.map, EventsKey(last.key))
        /\ ~MapHas(store.map, ReputationKey(last.key))
        /\ ~FnHas(engine.behaviorProfiles, last.key)
        /\ \A endpoint \in Endpoints :
              LET identifier == RateLimitIdentifier(last.key, [endpoint |-> endpoint])
              IN  /\ ~FnHas(rateLimiter.buckets, identifier)
                  /\ ~FnHas(rateLimiter.penalties, identifier)
                  /\ ~FnHas(rateLimiter.history, identifier)

\* resetUser has run on an identity that had been evaluated, and its event
\* list and reputation record are gone.
C9_Witness ==
    /\ last.op = "resetUser" /\ calls = <<>>
    /\ FnHas(engine.fingerprintCache, last.key)
    /\ ~MapHas(store.map, EventsKey(last.key))
    /\ ~MapHas(store.map, ReputationKey(last.key))

\* The decision a newly constructed engine of the same thresholds and
\* weights returns for request.
FreshDecision(request) ==
    LET w0 == [RiskEngine_new EXCEPT !.engine.thresholds = engine.thresholds,
                                     !.engine.weights = engine.weights]
        a == RiskEngine_evaluateStart(w0, request,
                                      [factors |-> <<>>, patterns |-> <<>>], now)
        b == RiskEngine_checkRateLimit(a.w, a.call, now)
    IN  RiskEngine_evaluateFinish(b.w, b.call, 1, now).r

\* C10: the evaluate that follows resetUser(id) returns for request r the
\* decision (score, level, action, allowed, components) a fresh engine
\* returns for r.
C10_EvaluateAfterResetIsFresh ==
    (last.op = "evaluate" /\ LastCall.ghost.afterReset /\ LastCall.ghost.alone)
        => last.r = FreshDecision(LastCall.request)

\* The evaluate that followed a resetUser of its identity has returned.
C10_Witness ==
    /\ last.op = "evaluate"
    /\ LastCall.ghost.afterReset /\ LastCall.ghost.alone
    /\ engine.globalStats.totalEvaluations >= 2

\* C11: evaluate calls that overlap lose no update. When the last of the
\* calls in flight returns - nothing but evaluate having been called since
\* the first of them was invoked, and the store having evicted nothing -
\* globalStats.totalEvaluations has grown by the number of the calls, each
\* identity's reputation.totalRequests by the number of its calls, and each
\* identity's event list by one event per call.
C11_NoUpdateLostUnderInterleaving ==
    (/\ last.op = "evaluate" /\ calls = <<>>
     /\ batch.clean /\ store.stats.evictions = batch.evictions)
        => /\ engine.globalStats.totalEvaluations = batch.totalEvaluations + batch.started
           /\ \A u \in Users :
                 /\ TotalRequestsOf(store, u) = batch.totalRequests[u] + batch.n[u]
                 /\ EventCountOf(store, u) = batch.events[u] + batch.n[u]

\* Two calls of one identity have overlapped and both have returned.
C11_Witness ==
    /\ last.op = "evaluate" /\ calls = <<>>
    /\ batch.clean /\ store.stats.evictions = batch.evictions
    /\ ~LastCall.ghost.alone
    /\ batch.n[last.key] >= 2

\* -------------------------- the engine and its shutdown (SpecDestroy)

\* The interval timer of the store fires: cleanup(). A timer fires between
\* two turns of the event loop, when no continuation is waiting.
StoreSweep ==
    /\ store.cleanupTimer
    /\ calls = <<>>
    /\ store' = MemoryStore_cleanup(store, now)
    /\ last' = Did("storeSweep", "", Null)
    /\ UNCHANGED <<now, steps, rateLimiter, run, engine, calls, batch, http, models, eventLog>>

\* The interval timer of the rate limiter fires: cleanup().
LimiterSweep ==
    /\ rateLimiter.cleanupInterval
    /\ calls = <<>>
    /\ rateLimiter' = RateLimiter_cleanup(rateLimiter, now)
    /\ last' = Did("limiterSweep", "", Null)
    /\ UNCHANGED <<now, steps, store, run, engine, calls, batch, http, models, eventLog>>

Destroy == EngineStep(RiskEngine_destroy(World), Did("destroy", "", Null))

NextDestroy ==
    \/ EngineTick \/ EvaluateStart \/ EvaluateCheckRateLimit \/ EvaluateFinish
    \/ StoreSweep \/ LimiterSweep \/ Destroy

SpecDestroy == Init /\ [][NextDestroy]_vars

\* C22: when destroy() has returned, the store holds no entry, the rate
\* limiter no bucket, penalty, history or user limit, the behaviour analyser
\* no profile and the fingerprinter no history; and once destroy() has been
\* called neither sweeper runs again.
C22_DestroyReleasesEverything ==
    /\ [](last.op = "destroy" =>
            /\ store.map = <<>> /\ store.expirations = <<>>
            /\ rateLimiter.buckets = <<>> /\ rateLimiter.penalties = <<>>
            /\ rateLimiter.history = <<>> /\ rateLimiter.userLimits = <<>>
            /\ engine.behaviorProfiles = <<>>
            /\ engine.fingerprintCache = <<>>)
    /\ [][(last.op = "destroy" \/ ~store.cleanupTimer \/ ~rateLimiter.cleanupInterval)
            => last'.op \notin {"storeSweep", "limiterSweep"}]_vars

\* destroy() has been called on an engine that had evaluated requests: the
\* store and the rate limiter are empty and their timers cleared.
C22_Witness ==
    /\ last.op = "destroy"
    /\ engine.globalStats.totalEvaluations >= 2
    /\ store.map = <<>> /\ rateLimiter.buckets = <<>>
    /\ ~store.cleanupTimer /\ ~rateLimiter.cleanupInterval

\* ----------------------------------- the risk levels (SpecLevels)

\* Arguments of setThresholds, one threshold at a time, and the scores
\* getRiskLevel is asked about. Repeated calls reach every combination of
\* the default and the two other values of each threshold, ascending or not.
LevelThresholdValues == {200, 600}
LevelThresholdUpdates ==
    {[low |-> v] : v \in LevelThresholdValues}
        \cup {[medium |-> v] : v \in LevelThresholdValues}
        \cup {[high |-> v] : v \in LevelThresholdValues}
        \cup {[critical |-> v] : v \in LevelThresholdValues}
LevelScores == {0, 200, 400, 600, 800, Scale}

\* The order minimal < low < medium < high < critical.
LevelRank(level) ==
    CASE level = "minimal" -> 0
      [] level = "low" -> 1
      [] level = "medium" -> 2
      [] level = "high" -> 3
      [] level = "critical" -> 4

\* setThresholds(thresholds); run forgets the levels read under the
\* thresholds before.
LevelSetThresholds ==
    \E thresholds \in LevelThresholdUpdates :
        /\ SetWorld(RiskEngine_setThresholds(World, thresholds))
        /\ run' = <<>>
        /\ last' = Did("setThresholds", "", Null)
        /\ UNCHANGED <<now, steps, calls, batch, http, models, eventLog>>

\* getRiskLevel(score); run keeps the level read for each score since the
\* thresholds were last set.
GetRiskLevel ==
    \E score \in LevelScores :
        LET level == RiskEngine_getRiskLevel(score, engine.thresholds)
        IN  /\ run' = FnSet(run, score, level)
            /\ last' = [Did("getRiskLevel", "", level) EXCEPT !.keys = <<score>>]
            /\ UNCHANGED <<now, steps, store, rateLimiter, engine, calls, batch,
                           http, models, eventLog>>

NextLevels == LevelSetThresholds \/ GetRiskLevel

SpecLevels == Init /\ [][NextLevels]_vars

\* C27: under one set of thresholds, ascending or not, the level of a lower
\* score is never above the level of a higher score in the order
\* minimal < low < medium < high < critical.
C27_LevelIsMonotone ==
    \A s1 \in DOMAIN run : \A s2 \in DOMAIN run :
        s1 <= s2 => LevelRank(run[s1]) <= LevelRank(run[s2])

\* Under thresholds that do not ascend (high below low) the levels of three
\* scores have been read, and they differ.
C27_Witness ==
    /\ last.op = "getRiskLevel"
    /\ engine.thresholds.high < engine.thresholds.low
    /\ \E s1 \in DOMAIN run : \E s2 \in DOMAIN run : \E s3 \in DOMAIN run :
          /\ s1 < s2 /\ s2 < s3
          /\ LevelRank(run[s1]) < LevelRank(run[s2])
          /\ LevelRank(run[s2]) < LevelRank(run[s3])

\* ------------------------------ the reputation records (SpecReputation)

\* Decisions evaluate hands to updateReputation under the default
\* thresholds: allow, challenge and ban.
ReputationDecisions ==
    {[riskScore |-> 0, allowed |-> TRUE, action |-> [type |-> "allow"]],
     [riskScore |-> 400, allowed |-> TRUE, action |-> [type |-> "challenge"]],
     [riskScore |-> Scale, allowed |-> FALSE, action |-> [type |-> "ban"]]}

\* Numbers of evaluations of the first identity before the first step.
EarlierEvaluations == {0, ReputationHistoryCap - 1, ReputationHistoryCap}

\* The store of a new engine after n calls of updateReputation(userId,
\* decision) at time t, n <= 100: one miss and n - 1 hits of get, and a
\* record of n requests with n equal entries in its history. The moving
\* average of equal scores is that score.
ReputationAfter(userId, decision, n, t) ==
    LET st == RiskEngine_new.store
        entry == [riskScore |-> decision.riskScore, action |-> decision.action.type]
        blockRatio == If(~decision.allowed, Scale)
        record == [id |-> 1,
                   score |-> clamp((decision.riskScore * 700 + blockRatio * 300) \div Scale,
                                   0, Scale),
                   history |-> [i \in 1..n |-> entry],
                   totalRequests |-> n,
                   blockedRequests |-> If(~decision.allowed, n)]
    IN  IF n = 0 THEN st
        ELSE [MemoryStore_set(st, ReputationKey(userId), Obj(record), st.defaultTTL, t)
                EXCEPT !.stats.misses = 1, !.stats.hits = n - 1]

ReputationOf(st, userId) == MapGet(st.map, ReputationKey(userId)).value.v

\* An engine that has evaluated some number of requests of the first
\* identity, all with the same decision.
InitReputation ==
    /\ now = StartTime
    /\ steps = 0
    /\ \E n \in EarlierEvaluations : \E decision \in ReputationDecisions :
          store = ReputationAfter("u1", decision, n, StartTime)
    /\ rateLimiter = RiskEngine_new.rateLimiter
    /\ engine = RiskEngine_new.engine
    /\ calls = <<>>
    /\ batch = NoBatch
    /\ http = <<>>
    /\ models = <<>>
    /\ eventLog = <<>>
    /\ last = NoOp
    /\ run = <<>>

\* updateReputation(userId, decision), as evaluate calls it.
UpdateReputation ==
    \E userId \in Users : \E decision \in ReputationDecisions :
        LET u == RiskEngine_updateReputation(store, userId, decision, steps + 2, now)
        IN  /\ steps < MaxReputationOps
            /\ steps' = steps + 1
            /\ store' = u.s
            /\ last' = Did("updateReputation", userId, Obj(u.r))
            /\ UNCHANGED <<now, rateLimiter, run, engine, calls, batch, http,
                           models, eventLog>>

NextReputation == Tick \/ UpdateReputation

SpecReputation == InitReputation /\ [][NextReputation]_vars

\* C28: every reputation record in the store has blockedRequests <=
\* totalRequests, a history of at most 100 entries and a score from 0 to 1.
C28_ReputationRecordsAreSound ==
    \A userId \in Users :
        MapHas(store.map, ReputationKey(userId)) =>
            LET reputation == ReputationOf(store, userId)
            IN  /\ reputation.blockedRequests <= reputation.totalRequests
                /\ Len(reputation.history) <= 100
                /\ reputation.score >= 0 /\ reputation.score <= Scale

\* The record of an identity has been updated past its hundredth request:
\* the history holds 100 entries, the last of them a ban after allowed
\* requests, and some but not all requests were blocked.
C28_Witness ==
    /\ last.op = "updateReputation"
    /\ MapHas(store.map, ReputationKey(last.key))
    /\ LET reputation == ReputationOf(store, last.key)
       IN  /\ reputation.totalRequests > 100
           /\ Len(reputation.history) = 100
           /\ reputation.history[1].action = "allow"
           /\ reputation.history[100].action = "ban"
           /\ reputation.blockedRequests > 0
           /\ reputation.score > 0

\* ------------------------ recovery of the reputation (SpecRecovery)

\* Lengths of the burst of blocked decisions.
BurstLengths == {1, 5, 14, 16, 50, ReputationHistoryCap}

BlockedDecision == [riskScore |-> Scale, allowed |-> FALSE, action |-> [type |-> "ban"]]
CleanDecision == [riskScore |-> 0, allowed |-> TRUE, action |-> [type |-> "allow"]]

\* An engine that has answered a burst of requests of one identity with a
\* ban.
InitRecovery ==
    /\ now = StartTime
    /\ steps = 0
    /\ \E n \in BurstLengths : store = ReputationAfter("u1", BlockedDecision, n, StartTime)
    /\ rateLimiter = RiskEngine_new.rateLimiter
    /\ engine = RiskEngine_new.engine
    /\ calls = <<>>
    /\ batch = NoBatch
    /\ http = <<>>
    /\ models = <<>>
    /\ eventLog = <<>>
    /\ last = NoOp
    /\ run = <<>>

\* updateReputation(userId, decision) for a clean decision: riskScore 0,
\* allowed. steps counts the clean decisions since the burst.
CleanUpdate ==
    LET u == RiskEngine_updateReputation(store, "u1", CleanDecision, 1, now)
    IN  /\ steps < CleanDecisions
        /\ steps' = steps + 1
        /\ store' = u.s
        /\ last' = Did("updateReputation", "u1", Obj(u.r))
        /\ UNCHANGED <<now, rateLimiter, run, engine, calls, batch, http, models,
                       eventLog>>

NextRecovery == CleanUpdate

SpecRecovery == InitRecovery /\ [][NextRecovery]_vars

\* C34: after a burst of blocked decisions of any length, 30 clean
\* decisions bring the reputation score of the identity below 0.1.
C34_ReputationRecovers ==
    steps = 30 => ReputationOf(store, "u1").score < 100

\* 30 clean decisions have followed a burst of 16 blocked ones: the last 20
\* scores are all 0, and 16 of the 46 requests of the record were blocked.
C34_Witness ==
    /\ steps = 30
    /\ ReputationOf(store, "u1").blockedRequests = 16
    /\ ReputationOf(store, "u1").totalRequests = 46
    /\ \A i \in 27..46 : ReputationOf(store, "u1").history[i].riskScore = 0
    /\ ReputationOf(store, "u1").score >= 100

\* --------------------------- the fingerprint histories (SpecStability)

\* Numbers of requests of the first identity before the first step, all of
\* them sent by a browser.
EarlierSamples == {0, FingerprintHistoryCap - 1}

\* An engine whose fingerprinter has seen that many samples of the first
\* identity, all with one fingerprint.
InitStability ==
    /\ now = StartTime
    /\ steps = 0
    /\ store = RiskEngine_new.store
    /\ rateLimiter = RiskEngine_new.rateLimiter
    /\ \E n \in EarlierSamples :
          engine = [RiskEngine_new.engine EXCEPT !.fingerprintCache =
                        IF n = 0 THEN <<>>
                        ELSE FnSet(<<>>, "u1", [i \in 1..n |-> "browser"])]
    /\ calls = <<>>
    /\ batch = NoBatch
    /\ http = <<>>
    /\ models = <<>>
    /\ eventLog = <<>>
    /\ last = NoOp
    /\ run = <<>>

\* calculateStability(userId, fingerprint), as generate calls it.
CalculateStability ==
    \E userId \in Users : \E fingerprint \in RequestKinds :
        LET c == Fingerprinter_calculateStability(engine.fingerprintCache, userId,
                                                  fingerprint)
        IN  /\ steps < MaxStabilityOps
            /\ steps' = steps + 1
            /\ engine' = [engine EXCEPT !.fingerprintCache = c.s]
            /\ last' = [Did("calculateStability", userId, Obj(c.r))
                           EXCEPT !.keys = <<fingerprint>>]
            /\ UNCHANGED <<now, store, rateLimiter, run, calls, batch, http,
                           models, eventLog>>

NextStability == CalculateStability

SpecStability == InitStability /\ [][NextStability]_vars

\* The number of distinct fingerprints among the samples of a history.
DistinctFingerprints(history) == Cardinality({history[i] : i \in 1..Len(history)})

\* C30: calculateStability reports an identity stable exactly when fewer
\* than 3 distinct fingerprints occur among its last 10 samples (counted
\* with the sample just added, or without it), and no fingerprint history
\* holds more than 100 entries.
C30_StableIffFewDistinct ==
    /\ \A userId \in DOMAIN engine.fingerprintCache :
          Len(engine.fingerprintCache[userId]) <= 100
    /\ last.op = "calculateStability" =>
          LET history == engine.fingerprintCache[last.key]
              before == SubSeq(history, 1, Len(history) - 1)
              stable == last.r.v.stable
          IN  \/ stable <=> DistinctFingerprints(SliceLast(history, 10)) < 3
              \/ stable <=> DistinctFingerprints(SliceLast(before, 10)) < 3

\* An identity whose 99 samples so far all carried one fingerprint has
\* sent a sample with another: two distinct fingerprints among the last 10,
\* a history of 100 entries, and the identity is reported unstable.
C30_Witness ==
    /\ last.op = "calculateStability"
    /\ ~last.r.v.stable
    /\ Len(engine.fingerprintCache[last.key]) = 100
    /\ DistinctFingerprints(SliceLast(engine.fingerprintCache[last.key], 10)) = 2

\* ------------------------------- two engines, one stream (SpecReplay)

\* The requests of the stream: one identity, from a browser.
ReplayRequests == {r \in Requests : r.userId = "u1" /\ r.kind = "browser"}

\* The first engine is (store, rateLimiter, engine), the second is the
\* record run; both are new.
InitReplay ==
    /\ now = StartTime
    /\ steps = 0
    /\ store = RiskEngine_new.store
    /\ rateLimiter = RiskEngine_new.rateLimiter
    /\ engine = RiskEngine_new.engine
    /\ run = RiskEngine_new
    /\ calls = <<>>
    /\ batch = NoBatch
    /\ http = <<>>
    /\ models = <<>>
    /\ eventLog = <<>>
    /\ last = NoOp

\* The next request of the stream is evaluated by both engines at the same
\* reading of the clock; the detectors of both are handed the same findings.
\* evaluate runs in its three parts, as in the engine on its own: up to the
\* first await, the rate limiter, and the decision. Its awaits are on
\* promises that are already settled, so no timer fires in between.
ReplayEvaluate ==
    \/ \E request \in ReplayRequests :
           \E inputs \in DetectorInputs(EventCountAfterRecord(request)) :
               LET first == RiskEngine_evaluateStart(World, request, inputs, now)
                   second == RiskEngine_evaluateStart(run, request, inputs, now)
               IN  /\ calls = <<>>
                   /\ steps < MaxReplayOps
                   /\ steps' = steps + 1
                   /\ SetWorld(first.w)
                   /\ run' = second.w
                   /\ calls' = <<first.call, second.call>>
                   /\ last' = Did("start", request.userId, Null)
                   /\ UNCHANGED <<now, batch, http, models, eventLog>>
    \/ /\ calls # <<>> /\ calls[1].pc # "decide"
       /\ LET first == RiskEngine_checkRateLimit(World, calls[1], now)
              second == RiskEngine_checkRateLimit(run, calls[2], now)
          IN  /\ SetWorld(first.w)
              /\ run' = second.w
              /\ calls' = <<first.call, second.call>>
       /\ last' = Did("rateLimit", calls[1].request.userId, Null)
       /\ UNCHANGED <<now, steps, batch, http, models, eventLog>>
    \/ /\ calls # <<>> /\ calls[1].pc = "decide"
       /\ LET first == RiskEngine_evaluateFinish(World, calls[1], steps, now)
              second == RiskEngine_evaluateFinish(run, calls[2], steps, now)
          IN  /\ SetWorld(first.w)
              /\ run' = second.w
              /\ last' = [Did("evaluate", calls[1].request.userId, first.r)
                             EXCEPT !.keys = <<second.r>>]
       /\ calls' = <<>>
       /\ UNCHANGED <<now, steps, batch, http, models, eventLog>>

\* Time passes between two requests of the stream: one step of the clock, or
\* once more than ten windows of the rate limiter.
ReplayElapse ==
    \E d \in {1, StaleFactor * EngineWindow + 1} :
        /\ calls = <<>>
        /\ now + d <= EngineMaxClock + StaleFactor * EngineWindow
        /\ now' = now + d
        /\ last' = Did("elapse", "", Null)
        /\ UNCHANGED <<steps, store, rateLimiter, run, engine, calls, batch, http,
                       models, eventLog>>

\* An interval timer of one of the engines fires: cleanup() of its store or
\* of its rate limiter. Each engine has its own timers, started when it was
\* constructed. A cleanup that finds nothing to delete changes nothing.
ReplaySweep ==
    \E which \in {"first", "second"}, timer \in {"store", "limiter"} :
        LET w == IF which = "first" THEN World ELSE run
            swept == IF timer = "store"
                     THEN [w EXCEPT !.store = MemoryStore_cleanup(@, now)]
                     ELSE [w EXCEPT !.rateLimiter = RateLimiter_cleanup(@, now)]
        IN  /\ calls = <<>>
            /\ swept # w
            /\ IF which = "first"
               THEN SetWorld(swept) /\ run' = run
               ELSE run' = swept /\ UNCHANGED <<store, rateLimiter, engine>>
            /\ last' = Did("sweep", which, Null)
            /\ UNCHANGED <<now, steps, calls, batch, http, models, eventLog>>

NextReplay == ReplayEvaluate \/ ReplayElapse \/ ReplaySweep

SpecReplay == InitReplay /\ [][NextReplay]_vars

\* What the claim compares of a decision.
ReplayView(decision) ==
    [riskScore |-> decision.riskScore, riskLevel |-> decision.riskLevel,
     type |-> decision.action.type, allowed |-> decision.allowed,
     components |-> decision.components]

\* C32: two new engines that are fed the same requests at the same readings
\* of the clock return the same decisions: score, level, action type,
\* allowed and components.
C32_ReplayIsDeterministic ==
    last.op = "evaluate" => ReplayView(last.r) = ReplayView(last.keys[1])

\* The stream has been evaluated by both engines after a long pause, and
\* the rate limiter of the first holds a penalty the second does not hold.
C32_Witness ==
    /\ last.op = "evaluate"
    /\ now > EngineMaxClock
    /\ rateLimiter.penalties # run.rateLimiter.penalties

\* ------------------------------ the fingerprint hash (SpecFingerprint)

\* A string is the sequence of its char codes; a 32-bit number is a record
\* [hi, lo] of its two 16-bit halves.
Half == 65536
FnvSeed == [hi |-> 33052, lo |-> 40389]

RECURSIVE BitXor(_, _)
BitXor(a, b) ==
    IF a = 0 THEN b
    ELSE IF b = 0 THEN a
    ELSE (((a % 2) + (b % 2)) % 2) + 2 * BitXor(a \div 2, b \div 2)

\* One round of fnv1a: hash ^= code, then hash += (hash << 1) + (hash << 4)
\* + (hash << 7) + (hash << 8) + (hash << 24), which is hash * 16777619;
\* every later use of hash takes it modulo 2^32 (^=, >>> 0).
FnvRound(hash, code) ==
    LET lo == BitXor(hash.lo, code)
        low == lo * 403
    IN  [lo |-> low % Half,
         hi |-> ((hash.hi * 403) + (low \div Half) + ((lo % 256) * 256)) % Half]

RECURSIVE FnvFrom(_, _, _)
FnvFrom(str, i, hash) ==
    IF i > Len(str) THEN hash ELSE FnvFrom(str, i + 1, FnvRound(hash, str[i]))

\* Number.prototype.toString(16) of a number below 65536, and the same
\* padded to four digits.
HexDigit(d) == IF d < 10 THEN 48 + d ELSE 87 + d
RECURSIVE Hex(_)
Hex(n) ==
    IF n < 16 THEN <<HexDigit(n)>> ELSE Append(Hex(n \div 16), HexDigit(n % 16))
Hex4(n) ==
    <<HexDigit(n \div 4096), HexDigit((n \div 256) % 16), HexDigit((n \div 16) % 16),
      HexDigit(n % 16)>>

\* fnv1a(str): (hash >>> 0).toString(16)
Fingerprinter_fnv1a(str, hashSeed) ==
    LET hash == FnvFrom(str, 1, hashSeed)
    IN  IF hash.hi = 0 THEN Hex(hash.lo) ELSE Hex(hash.hi) \o Hex4(hash.lo)

\* a < b as Array.prototype.sort compares strings: by code units.
RECURSIVE StrLess(_, _)
StrLess(a, b) ==
    IF b = <<>> THEN FALSE
    ELSE IF a = <<>> THEN TRUE
    ELSE IF a[1] # b[1] THEN a[1] < b[1]
    ELSE StrLess(Tail(a), Tail(b))

\* Array.prototype.sort() of an array of strings.
RECURSIVE SortStrings(_)
SortStrings(arr) ==
    IF arr = <<>> THEN <<>>
    ELSE LET least == CHOOSE i \in 1..Len(arr) :
                          \A j \in 1..Len(arr) : ~StrLess(arr[j], arr[i])
         IN  <<arr[least]>> \o SortStrings(RemoveAt(arr, least))

\* Array.prototype.join(separator) of an array of strings.
RECURSIVE JoinStrings(_, _)
JoinStrings(arr, separator) ==
    IF arr = <<>> THEN <<>>
    ELSE IF Len(arr) = 1 THEN arr[1]
    ELSE arr[1] \o separator \o JoinStrings(Tail(arr), separator)

\* The components computeFingerprint reads, of a request with the header
\* user-agent and client.plugins and nothing else: parseUserAgent(ua).hash
\* (absent for an empty user-agent) and hashPlugins(plugins), which sorts
\* the array of the request in place (null for an empty array).
Fingerprinter_extractHashes(request, hashSeed) ==
    [request |-> [request EXCEPT !.plugins = IF @ = <<>> THEN @ ELSE SortStrings(@)],
     userAgent |-> IF request.ua = <<>> THEN <<>>
                   ELSE <<Fingerprinter_fnv1a(request.ua, hashSeed)>>,
     plugins |-> IF request.plugins = <<>> THEN <<>>
                 ELSE <<Fingerprinter_fnv1a(JoinStrings(SortStrings(request.plugins), <<124>>),
                                            hashSeed)>>]

\* computeFingerprint(components): the components that are there, joined
\* with '|' and hashed.
Fingerprinter_hashComponents(components, hashSeed) ==
    Fingerprinter_fnv1a(JoinStrings(components.userAgent \o components.plugins, <<124>>),
                        hashSeed)

\* generate that mixes the number of samples it holds of the identity into
\* the hash.
Fingerprinter_generateHash_salted(fp, request, t) ==
    LET c == Fingerprinter_extractHashes(request, fp.hashSeed)
        seen == IF FnHas(fp.fingerprintCache, request.userId)
                THEN Len(fp.fingerprintCache[request.userId]) ELSE 0
        fingerprint == Fingerprinter_fnv1a(
                           JoinStrings(c.userAgent \o c.plugins \o <<Hex(seen)>>, <<124>>),
                           fp.hashSeed)
        history == IF FnHas(fp.fingerprintCache, request.userId)
                   THEN fp.fingerprintCache[request.userId] ELSE <<>>
    IN  [s |-> [fp EXCEPT !.fingerprintCache =
                    FnSet(@, request.userId,
                          SliceLast(Append(history, [fingerprint |-> fingerprint,
                                                     timestamp |-> t]),
                                    FingerprintHistoryCap))],
         request |-> c.request,
         r |-> fingerprint]

\* generate(request): the fingerprint it returns, the history of the
\* identity it extends (calculateStability) and the request as it leaves it.
Fingerprinter_generateHash(fp, request, t) ==
    LET c == Fingerprinter_extractHashes(request, fp.hashSeed)
        fingerprint == Fingerprinter_hashComponents(c, fp.hashSeed)
        history == IF FnHas(fp.fingerprintCache, request.userId)
                   THEN fp.fingerprintCache[request.userId] ELSE <<>>
    IN  [s |-> [fp EXCEPT !.fingerprintCache =
                    FnSet(@, request.userId,
                          SliceLast(Append(history, [fingerprint |-> fingerprint,
                                                     timestamp |-> t]),
                                    FingerprintHistoryCap))],
         request |-> c.request,
         r |-> fingerprint]

\* recordBlocked(fingerprint)
Fingerprinter_recordBlocked(fp, fingerprint, t) ==
    LET record == IF FnHas(fp.knownFingerprints, fingerprint)
                  THEN fp.knownFingerprints[fingerprint]
                  ELSE [seen |-> 0, blocked |-> 0, lastBlocked |-> 0]
    IN  [fp EXCEPT !.knownFingerprints =
            FnSet(@, fingerprint, [record EXCEPT !.blocked = @ + 1, !.lastBlocked = t])]

\* cleanup(maxAge)
Fingerprinter_cleanup(fp, maxAge, t) ==
    LET recent(history) == SelectSeq(history, LAMBDA h : t - h.timestamp < maxAge)
        kept == {k \in DOMAIN fp.fingerprintCache : recent(fp.fingerprintCache[k]) # <<>>}
        known == {f \in DOMAIN fp.knownFingerprints :
                     ~(t - fp.knownFingerprints[f].lastBlocked > maxAge * 7)}
    IN  [fp EXCEPT !.fingerprintCache = [k \in kept |-> recent(fp.fingerprintCache[k])],
                   !.knownFingerprints = [f \in known |-> fp.knownFingerprints[f]]]

\* The request objects the callers hold: user-agent "Moz" or none, plugins
\* "pdf" and "av" in either order or none.
FingerprintRequests ==
    [userId : {"u1"},
     ua : {<<>>, <<77, 111, 122>>},
     plugins : {<<>>, <<<<112, 100, 102>>, <<97, 118>>>>, <<<<97, 118>>, <<112, 100, 102>>>>}]

\* A new Fingerprinter (run) and two request objects of the callers (http);
\* eventLog keeps the first fingerprint generate returned for each of them.
InitFingerprint ==
    /\ now = StartTime
    /\ steps = 0
    /\ store = RiskEngine_new.store
    /\ rateLimiter = RiskEngine_new.rateLimiter
    /\ engine = RiskEngine_new.engine
    /\ run = [hashSeed |-> FnvSeed, fingerprintCache |-> <<>>,
              knownFingerprints |-> <<>>, suspiciousSignatures |-> {}]
    /\ http \in [{"a", "b"} -> FingerprintRequests]
    /\ calls = <<>>
    /\ batch = NoBatch
    /\ models = <<>>
    /\ eventLog = <<>>
    /\ last = NoOp

FingerprintStep(fp, l) ==
    /\ steps < MaxFingerprintOps
    /\ steps' = steps + 1
    /\ run' = fp
    /\ last' = l
    /\ UNCHANGED <<now, store, rateLimiter, engine, calls, batch, models>>

\* fingerprinter.generate(request) on one of the request objects.
Generate ==
    \E name \in DOMAIN http :
        LET g == Fingerprinter_generateHash(run, http[name], now)
        IN  /\ FingerprintStep(g.s, Did("generate", name, g.r))
            /\ http' = [http EXCEPT ![name] = g.request]
            /\ eventLog' = IF FnHas(eventLog, name) THEN eventLog
                           ELSE FnSet(eventLog, name, g.r)

\* markSuspicious(fingerprint) and recordBlocked(fingerprint) of a
\* fingerprint generate has returned.
MarkSuspicious ==
    \E name \in DOMAIN eventLog :
        /\ FingerprintStep([run EXCEPT !.suspiciousSignatures = @ \cup {eventLog[name]}],
                           Did("markSuspicious", name, Null))
        /\ UNCHANGED <<http, eventLog>>

RecordBlocked ==
    \E name \in DOMAIN eventLog :
        /\ FingerprintStep(Fingerprinter_recordBlocked(run, eventLog[name], now),
                           Did("recordBlocked", name, Null))
        /\ UNCHANGED <<http, eventLog>>

\* cleanup(maxAge) with a maxAge of one step of the clock.
FingerprintCleanup ==
    /\ FingerprintStep(Fingerprinter_cleanup(run, 1, now), Did("cleanup", "", Null))
    /\ UNCHANGED <<http, eventLog>>

NextFingerprint == Tick \/ Generate \/ MarkSuspicious \/ RecordBlocked \/ FingerprintCleanup

SpecFingerprint == InitFingerprint /\ [][NextFingerprint]_vars

\* C33: generate returns for a request object the fingerprint it returned
\* for it the first time, whatever was called in between; and two request
\* objects with the same user-agent and the same plugins get the same
\* fingerprint.
C33_FingerprintDependsOnRequestOnly ==
    /\ last.op = "generate" => last.r = eventLog[last.key]
    /\ \A a \in DOMAIN eventLog : \A b \in DOMAIN eventLog :
          (http[a].ua = http[b].ua /\ http[a].plugins = http[b].plugins)
              => eventLog[a] = eventLog[b]

\* generate has hashed a request with plugins for the second time, after the
\* history of the identity was emptied by cleanup and the fingerprint was
\* marked suspicious and recorded as blocked.
C33_Witness ==
    /\ last.op = "generate"
    /\ http[last.key].plugins # <<>>
    /\ FnHas(run.fingerprintCache, "u1") /\ Len(run.fingerprintCache["u1"]) = 1
    /\ last.r \in run.suspiciousSignatures
    /\ FnHas(run.knownFingerprints, last.r)

\* ------------------------------- the velocity checker (SpecVelocity)

MaxVelocityOps == 6

\* Identifiers and rule names are sequences of characters; a name no other
\* string of the model shares a character with is written as one element.
VelocityIdentifiers == {<<"a">>, <<"a", "b">>, <<"a", ":", "b">>}
PasswordResets == <<"password_resets">>

\* The rule initializeDefaultRules adds under 'password_resets', as addRule
\* stores it; windows in the order Object.entries lists them.
PasswordResetsRule ==
    [windows |-> <<[windowMs |-> 3600000, limit |-> 3],
                   [windowMs |-> 86400000, limit |-> 10]>>,
     action |-> "block", cooldown |-> 3600000, multiplier |-> 1, enabled |-> TRUE]

\* this.rules
VelocityRules == [r \in {PasswordResets} |-> PasswordResetsRule]

\* `${identifier}:${ruleName}`
VelocityKey(identifier, ruleName) == identifier \o <<":">> \o ruleName

\* key.startsWith(prefix)
StartsWith(key, prefix) ==
    Len(key) >= Len(prefix) /\ SubSeq(key, 1, Len(prefix)) = prefix

\* new VelocityChecker()
VelocityChecker_new == [windows |-> <<>>, violations |-> <<>>]

\* evaluateWindows(events, rule, now); times are steps of the clock.
VelocityChecker_evaluateWindows(events, rule, t) ==
    LET count(w) == Len(SelectSeq(events,
                        LAMBDA ts : ts * ClockStep > t * ClockStep - w.windowMs))
        adjustedLimit(w) == w.limit * rule.multiplier
        exceeded == SelectSeq(rule.windows, LAMBDA w : count(w) > adjustedLimit(w))
        violations ==
            [i \in 1..Len(exceeded) |->
                [window |-> exceeded[i].windowMs,
                 limit |-> adjustedLimit(exceeded[i]),
                 count |-> count(exceeded[i]),
                 severity |-> ((count(exceeded[i]) - adjustedLimit(exceeded[i])) * Scale)
                                 \div adjustedLimit(exceeded[i])]]
    IN  IF Len(violations) = 0
        THEN [allowed |-> TRUE, reason |-> "", violations |-> <<>>,
              worstSeverity |-> 0]
        ELSE [allowed |-> FALSE, reason |-> "velocity_exceeded",
              violations |-> violations,
              worstSeverity |-> SeqMax([i \in 1..Len(violations) |-> violations[i].severity])]

\* check(identifier, ruleName) with no options: getActiveViolation, then
\* the event is pushed, the windows are evaluated, a violation is recorded
\* (recordViolation) and the events are pruned (pruneEvents).
VelocityChecker_check(vc, identifier, ruleName, t) ==
    LET key == VelocityKey(identifier, ruleName)
        recorded == IF key \in DOMAIN vc.violations THEN vc.violations[key] ELSE <<>>
        active == SelectSeq(recorded, LAMBDA v : v.expiresAt > t * ClockStep)
    IN  IF ruleName \notin DOMAIN VelocityRules \/ ~VelocityRules[ruleName].enabled
        THEN [vc |-> vc, r |-> [allowed |-> TRUE, reason |-> "rule_not_found_or_disabled"]]
        ELSE IF Len(active) > 0
        THEN [vc |-> vc, r |-> [allowed |-> FALSE, reason |-> "active_violation"]]
        ELSE LET rule == VelocityRules[ruleName]
                 events == Append(IF key \in DOMAIN vc.windows THEN vc.windows[key]
                                  ELSE <<>>, t)
                 result == VelocityChecker_evaluateWindows(events, rule, t)
                 violation == [timestamp |-> t,
                               expiresAt |-> t * ClockStep + rule.cooldown,
                               severity |-> result.worstSeverity,
                               details |-> result.violations]
                 pushed == Append(recorded, violation)
                 kept == IF Len(pushed) > 100 THEN SliceLast(pushed, 100) ELSE pushed
                 pruned == SelectSeq(events,
                              LAMBDA ts : ts * ClockStep > t * ClockStep - 86400000)
             IN  [vc |-> [windows |-> FnSet(vc.windows, key, pruned),
                          violations |-> IF result.allowed THEN vc.violations
                                         ELSE FnSet(vc.violations, key, kept)],
                  r |-> [allowed |-> result.allowed, reason |-> result.reason]]

\* reset(identifier, ruleName); ruleName <<>> stands for null.
VelocityChecker_reset(vc, identifier, ruleName) ==
    IF ruleName # <<>>
    THEN [windows |-> FnDelete(vc.windows, VelocityKey(identifier, ruleName)),
          violations |-> FnDelete(vc.violations, VelocityKey(identifier, ruleName))]
    ELSE LET prefix == identifier \o <<":">>
             rest(f) == [k \in {x \in DOMAIN f : ~StartsWith(x, prefix)} |-> f[k]]
         IN  [windows |-> rest(vc.windows), violations |-> rest(vc.violations)]

InitVelocity ==
    /\ now = StartTime
    /\ steps = 0
    /\ store = MemoryStore_new(MaxSize, TTL)
    /\ last = NoOp
    /\ rateLimiter = RateLimiter_new(DefaultLimit, WindowSize)
    /\ run = VelocityChecker_new
    /\ engine = RiskEngine_new.engine
    /\ calls = <<>>
    /\ batch = NoBatch
    /\ http = <<>>
    /\ models = <<>>
    /\ eventLog = <<>>

VelocityStep(vc, l) ==
    /\ steps < MaxVelocityOps
    /\ steps' = steps + 1
    /\ run' = vc
    /\ last' = l
    /\ UNCHANGED <<now, store, rateLimiter, engine, calls, batch, http, models, eventLog>>

VcCheck ==
    \E identifier \in VelocityIdentifiers :
        LET c == VelocityChecker_check(run, identifier, PasswordResets, now)
        IN  VelocityStep(c.vc, [op |-> "check", key |-> identifier,
                                r |-> c.r, keys |-> <<>>])

\* keys of last: the rule name reset was passed, and the keys the checker
\* held violations under when reset was called.
VcReset ==
    \E identifier \in VelocityIdentifiers, ruleName \in {<<>>, PasswordResets} :
        VelocityStep(VelocityChecker_reset(run, identifier, ruleName),
                     [op |-> "reset", key |-> identifier, r |-> Null,
                      keys |-> <<ruleName, DOMAIN run.violations>>])

NextVelocity == Tick \/ VcCheck \/ VcReset

SpecVelocity == InitVelocity /\ [][NextVelocity]_vars

\* What the checker holds for an identifier under the rule: its event
\* window and its violations, each absent or a list.
HeldFor(vc, identifier) ==
    LET key == VelocityKey(identifier, PasswordResets)
    IN  [windows |-> IF key \in DOMAIN vc.windows THEN <<vc.windows[key]>> ELSE <<>>,
         violations |-> IF key \in DOMAIN vc.violations
                        THEN <<vc.violations[key]>> ELSE <<>>]

\* C40: reset(identifier) leaves the event windows and violations of every
\* other identifier as they were, also those of identifiers that contain
\* ':' or begin with the identifier that is reset.
C40_ResetLeavesOtherIdentifiers ==
    [][(last'.op = "reset" /\ last'.keys[1] = <<>>)
          => \A other \in VelocityIdentifiers \ {last'.key} :
                 HeldFor(run', other) = HeldFor(run, other)]_vars

\* reset("a") has just removed the violations of the identifier "a:b", and
\* left the window of the identifier "ab".
C40_Witness ==
    /\ last.op = "reset" /\ last.key = <<"a">> /\ last.keys[1] = <<>>
    /\ VelocityKey(<<"a", ":", "b">>, PasswordResets) \in last.keys[2]
    /\ VelocityKey(<<"a", ":", "b">>, PasswordResets) \notin DOMAIN run.violations
    /\ VelocityKey(<<"a", "b">>, PasswordResets) \in DOMAIN run.windows

\* ------------------------------------- the engine with hooks (SpecHooks)

\* The hooks handed to the constructor: each absent, returning or
\* throwing; three of the twenty-seven combinations, in which every hook
\* is once absent, once returning and once throwing.
HookConfigs ==
    {[onHighRisk |-> "throws", onBlock |-> "returns", onAnomaly |-> "throws"],
     [onHighRisk |-> "returns", onBlock |-> "throws", onAnomaly |-> "none"],
     [onHighRisk |-> "none", onBlock |-> "none", onAnomaly |-> "returns"]}

\* new RiskEngine({ onHighRisk, onBlock, onAnomaly })
InitHooks ==
    /\ now = StartTime
    /\ steps = 0
    /\ store = RiskEngine_new.store
    /\ rateLimiter = RiskEngine_new.rateLimiter
    /\ engine \in {[RiskEngine_new.engine EXCEPT !.hooks = h] : h \in HookConfigs}
    /\ calls = <<>>
    /\ batch = NoBatch
    /\ http = <<>>
    /\ models = <<>>
    /\ eventLog = <<>>
    /\ last = NoOp
    /\ run = <<>>

NextHooks == EngineTick \/ EvaluateStart \/ EvaluateCheckRateLimit \/ EvaluateFinish

SpecHooks == InitHooks /\ [][NextHooks]_vars

\* The engine with every throwing hook replaced by one that returns.
QuietWorld ==
    [World EXCEPT !.engine.hooks =
        [h \in DOMAIN @ |-> IF @[h] = "throws" THEN "returns" ELSE @[h]]]

\* C20: a hook that throws changes nothing else: evaluate returns the
\* decision, every hook that is configured and whose condition the decision
\* meets has been called (onHighRisk for riskScore >= thresholds.high,
\* onBlock for block and ban, onAnomaly for a decision with behaviour
\* factors), and the store (the reputation) and the global counters after
\* the call are those the same call leaves when no hook throws.
C20_HookFailuresAreSwallowed ==
    /\ [](last.op = "evaluate" =>
            /\ last.r # Null
            /\ last.r.userId = LastCall.request.userId
            /\ \A h \in DOMAIN engine.hooks :
                  (\E i \in 1..Len(LastHooks) : LastHooks[i] = h)
                    <=> /\ engine.hooks[h] # "none"
                        /\ \/ h = "onHighRisk" /\ last.r.riskScore >= engine.thresholds.high
                           \/ h = "onBlock" /\ last.r.action.type \in {"block", "ban"}
                           \/ h = "onAnomaly" /\ last.r.components.behavior.factors # <<>>)
    /\ [][last'.op = "evaluate" =>
            LET quiet == RiskEngine_evaluateFinish(QuietWorld, last'.keys[1], steps, now)
            IN  /\ store' = quiet.w.store
                /\ engine'.globalStats = quiet.w.engine.globalStats
                /\ engine'.globalStats.totalEvaluations
                       = engine.globalStats.totalEvaluations + 1
                /\ last'.r = quiet.r]_vars

\* evaluate has returned a decision for which all three hooks were due,
\* the first of them threw and the other two were called after it.
C20_Witness ==
    /\ last.op = "evaluate"
    /\ engine.hooks = [onHighRisk |-> "throws", onBlock |-> "returns", onAnomaly |-> "throws"]
    /\ LastHooks = <<"onHighRisk", "onBlock", "onAnomaly">>
    /\ last.r.action.type = "block"

\* ------------------------- the two analysers on their own (SpecAnalysers)

\* BehaviorAnalyzer.analyze(userId, events) on a list of n events.
Analyze ==
    \E userId \in Users, n \in 0..(MinSamples + 1), f \in Findings :
        LET a == BehaviorAnalyzer_analyze(engine.behaviorProfiles, userId,
                                          [i \in 1..n |-> i], f.factors)
        IN  /\ steps < MaxAnalyses
            /\ steps' = steps + 1
            /\ engine' = [engine EXCEPT !.behaviorProfiles = a.s]
            /\ last' = [Did("analyze", userId, a.r) EXCEPT !.keys = <<n>>]
            /\ UNCHANGED <<now, store, rateLimiter, run, calls, batch, http, models, eventLog>>

\* AnomalyDetector.train(identifier, data) on a list of numbers.
Train ==
    \E identifier \in Users, data \in {<<>>, <<5>>, <<1, 5>>, <<5, 5, 5>>, <<2, 4, 5>>} :
        LET a == AnomalyDetector_train(models, identifier, data)
        IN  /\ steps < MaxAnalyses
            /\ steps' = steps + 1
            /\ models' = a.s
            /\ last' = [Did("train", identifier, a.r) EXCEPT !.keys = <<Len(data)>>]
            /\ UNCHANGED <<now, store, rateLimiter, run, engine, calls, batch, http, eventLog>>

\* AnomalyDetector.detect(identifier, sample)
Detect ==
    \E identifier \in Users, sample \in {1, 9} :
        /\ steps < MaxAnalyses
        /\ steps' = steps + 1
        /\ last' = Did("detect", identifier,
                       AnomalyDetector_detect(models, identifier, sample))
        /\ UNCHANGED <<now, store, rateLimiter, run, engine, calls, batch, http, models, eventLog>>

\* AnomalyDetector.clearModel(identifier)
ClearModel ==
    \E identifier \in Users :
        /\ steps < MaxAnalyses
        /\ steps' = steps + 1
        /\ models' = FnDelete(models, identifier)
        /\ last' = Did("clearModel", identifier, Null)
        /\ UNCHANGED <<now, store, rateLimiter, run, engine, calls, batch, http, eventLog>>

NextAnalysers == Analyze \/ Train \/ Detect \/ ClearModel

\* Every object starts as its constructor leaves it.
SpecAnalysers == InitStore /\ [][NextAnalysers]_vars

\* C17: below minSamples the analysers answer with their sentinel and
\* change nothing: analyze returns reliable = false, riskScore 0.5 and no
\* factors and leaves the profiles as they were; train returns trained =
\* false and leaves the models as they were; detect for an identifier
\* without a model returns the reason no_model.
C17_SentinelBelowMinSamples ==
    [][/\ (last'.op = "analyze" /\ last'.keys[1] < MinSamples)
            => /\ last'.r = [reliable |-> FALSE, riskScore |-> 500, factors |-> <<>>]
               /\ engine'.behaviorProfiles = engine.behaviorProfiles
       /\ (last'.op = "train" /\ last'.keys[1] < AnomalyMinSamples)
            => /\ ~last'.r.trained
               /\ models' = models
       /\ (last'.op = "detect" /\ ~FnHas(models, last'.key))
            => last'.r.reason = "no_model"]_vars

\* train has refused a list that is too short for an identifier that has a
\* model, while the other identifier has a profile and no model.
C17_Witness ==
    /\ last.op = "train" /\ ~last.r.trained
    /\ FnHas(models, last.key)
    /\ \E u \in Users : FnHas(engine.behaviorProfiles, u) /\ ~FnHas(models, u)

\* C31: every behaviour profile has confidence = min(length of
\* featureHistory / 20, 1) and at most 100 entries in featureHistory, and
\* it has a baseline only when the history holds at least 5 samples.
C31_ConfidenceFollowsHistory ==
    \A userId \in DOMAIN engine.behaviorProfiles :
        LET profile == engine.behaviorProfiles[userId]
        IN  /\ profile.confidence = Min((profile.n * Scale) \div ConfidenceSamples, Scale)
            /\ profile.n <= 100
            /\ profile.baseline => profile.n >= 5

\* analyze has updated the profile of an identity for the fourth time: the
\* history holds 4 samples, there is no baseline and the confidence is 0.
C31_Witness ==
    /\ last.op = "analyze"
    /\ FnHas(engine.behaviorProfiles, last.key)
    /\ engine.behaviorProfiles[last.key].n = 4
    /\ engine.behaviorProfiles[last.key].confidence = 0
    /\ ~engine.behaviorProfiles[last.key].baseline

\* ------------------------ the pattern detector on its own (SpecPatterns)

\* The caller appends an event to the list: its action is "login" (a word
\* of bruteForce), "reset" (a word of accountTakeover) or "home" (a word of
\* no attack), and it comes 500 ms or 6 s after the event before it.
AppendEvent ==
    \E action \in {"login", "reset", "home"}, gap \in {500, 6000} :
        LET t == IF eventLog = <<>> THEN gap
                 ELSE eventLog[Len(eventLog)].timestamp + gap
        IN  /\ Len(eventLog) < MaxEvents
            /\ eventLog' = Append(eventLog, [action |-> <<action>>, timestamp |-> t])
            /\ last' = Did("append", "", Null)
            /\ UNCHANGED <<now, steps, store, rateLimiter, run, engine, calls, batch,
                           http, models>>

\* PatternDetector.detect(events) on the list; what the detectors of
\* sequence and temporal patterns find is an input.
DetectPatterns ==
    \E others \in {<<>>, <<[type |-> "sequence", attackName |-> "", risk |-> 500]>>} :
        /\ last' = Did("detectPatterns", "",
                       PatternDetector_detect(eventLog,
                           others \o PatternDetector_detectKnownAttacks(eventLog)))
        /\ UNCHANGED <<now, steps, store, rateLimiter, run, engine, calls, batch,
                       http, models, eventLog>>

NextPatterns == AppendEvent \/ DetectPatterns

SpecPatterns == InitStore /\ [][NextPatterns]_vars

\* the events of the list whose action matches the pattern of the attack
MatchingEvents(config) ==
    SelectSeq(eventLog, LAMBDA e : RegexMatches(config, e.action))

\* C18: when at least minRepetitions events of the list carry an action
\* that matches the pattern of an attack, detect reports that attack, and
\* attackType names the reported attack of the greatest risk; for a list of
\* login events, bruteForce.
C18_KnownAttackIsReported ==
    last.op = "detectPatterns" =>
        /\ \A i \in 1..Len(knownAttackPatterns) :
              LET config == knownAttackPatterns[i]
              IN  Len(MatchingEvents(config)) >= config.minRepetitions
                    => \E j \in 1..Len(last.r.patterns) :
                          /\ last.r.patterns[j].type = "attack"
                          /\ last.r.patterns[j].attackName = config.attackName
        /\ (/\ Len(eventLog) >= knownAttackPatterns[1].minRepetitions
            /\ \A i \in 1..Len(eventLog) : eventLog[i].action = <<"login">>)
              => last.r.attackType = "bruteForce"

\* detect has run on a list of five login events 500 ms apart.
C18_Witness ==
    /\ last.op = "detectPatterns"
    /\ Len(eventLog) = knownAttackPatterns[1].minRepetitions
    /\ \A i \in 1..Len(eventLog) :
          eventLog[i] = [action |-> <<"login">>, timestamp |-> 500 * i]

\* ------------------------------------ the anti-abuse middleware (SpecMW)

\* createAntiAbuseMiddleware(options): options.silent, options.onDecision
\* absent, returning or throwing, and options.customExtractor absent or
\* throwing on the requests it is handed.
MwConfigs ==
    [silent : BOOLEAN, onDecision : {"none", "returns", "throws"},
     customExtractor : {"none", "throws"}]

\* What the middleware is handed: a request whose path is or is not among
\* skipPaths, with or without the x-challenge-response header. status 0: no
\* response has been sent; next counts the calls of next(); at is the time
\* evaluate resolved, due the time the timer of handleThrottle may fire at
\* the earliest, nextAt the time of the last call of next(). events counts
\* the calls of engine.recordEvent made for the request, finished says that
\* the response has emitted 'finish'.
MwRequests ==
    {[skip |-> sk, challengeResponse |-> ch, pc |-> "received", outcome |-> "",
      status |-> 0, next |-> 0, logged |-> FALSE, riskHeaders |-> FALSE,
      onFinish |-> FALSE, at |-> 0, due |-> 0, nextAt |-> 0,
      events |-> 0, finished |-> FALSE] :
        sk \in BOOLEAN, ch \in BOOLEAN}

\* config.throttleDelay (ms) and the factor of a throttle action
ThrottleDelay == 1000
ThrottleFactor == 500

\* `config.throttleDelay * (1 / decision.action.factor)`, in milliseconds,
\* and the steps of the clock a timer of that delay takes at the least.
Middleware_delay == (ThrottleDelay * Scale) \div ThrottleFactor
DelaySteps == (Middleware_delay + ClockStep - 1) \div ClockStep

\* The decisions evaluate resolves with carry one of these action types.
ActionTypes == {"allow", "challenge", "throttle", "block", "ban"}

\* What extractRequest makes of the requests of the model: one identity,
\* one endpoint.
MwExtracted == [userId |-> "u1", endpoint |-> "/api", kind |-> "browser"]

\* antiAbuseMiddleware(req, res, next) up to `await engine.evaluate(request)`:
\* evaluate has run up to its first await, recordEvent included.
\* extractRequest is called before the try block: when the extractor throws,
\* the promise the middleware returned is rejected and the function is over.
Middleware_receive(config, h) ==
    IF h.skip THEN [h EXCEPT !.pc = "done", !.next = @ + 1]
    ELSE IF config.customExtractor = "throws"
    THEN [h EXCEPT !.pc = "rejected", !.outcome = "extract"]
    ELSE [h EXCEPT !.pc = "evaluate", !.events = @ + 1]

\* The listener of res.on('finish'), when the try block has registered it.
Middleware_finish(config, h) ==
    [h EXCEPT !.finished = TRUE, !.events = IF h.onFinish THEN @ + 1 ELSE @]

Middleware_catch_closed(config, h) == [h EXCEPT !.pc = "done", !.status = 403]

\* The catch block: log unless silent, then next().
Middleware_catch(config, h) ==
    [h EXCEPT !.pc = "done", !.logged = ~config.silent, !.next = @ + 1]

\* The try block after evaluate has resolved with a decision of action type.
Middleware_resolved(config, h, type, t) ==
    IF config.onDecision = "throws"
    THEN [Middleware_catch(config, h) EXCEPT !.at = t, !.nextAt = t]
    ELSE LET h1 == [h EXCEPT !.riskHeaders = ~config.silent, !.at = t]
         IN  IF type \in {"ban", "block"}
             THEN [h1 EXCEPT !.pc = "done", !.status = 403]
             ELSE IF type = "throttle"
             THEN [h1 EXCEPT !.pc = "timer", !.due = t + DelaySteps]
             ELSE IF type = "challenge" /\ ~h.challengeResponse
             THEN [h1 EXCEPT !.pc = "done", !.status = 429]
             ELSE [h1 EXCEPT !.pc = "done", !.onFinish = TRUE, !.next = @ + 1,
                             !.nextAt = t]

InitMW ==
    /\ now = StartTime
    /\ steps = 0
    /\ store = MemoryStore_new(MaxSize, TTL)
    /\ last = NoOp
    /\ rateLimiter = RateLimiter_new(DefaultLimit, WindowSize)
    /\ run = <<>>
    /\ engine = RiskEngine_new.engine
    /\ calls = <<>>
    /\ batch = NoBatch
    /\ http \in {[config |-> c, reqs |-> <<>>] : c \in MwConfigs}
    /\ models = <<>>
    /\ eventLog = <<>>

\* The server hands a request to the middleware.
MwRequest ==
    \E h \in MwRequests :
        /\ Len(http.reqs) < MaxRequests
        /\ http' = [http EXCEPT !.reqs = Append(@, Middleware_receive(http.config, h))]
        /\ store' = IF h.skip \/ http.config.customExtractor = "throws" THEN store
                     ELSE RiskEngine_recordEvent(store, MwExtracted.userId, MwExtracted, now)
        /\ last' = Did("request", "", Null)
        /\ UNCHANGED <<now, steps, rateLimiter, run, engine, calls, batch, models, eventLog>>

\* engine.evaluate resolves with a decision of one of the action types.
MwEvaluateResolves ==
    \E i \in 1..Len(http.reqs),
       type \in ActionTypes :
        /\ http.reqs[i].pc = "evaluate"
        /\ http' = [http EXCEPT !.reqs[i] =
                        [Middleware_resolved(http.config, http.reqs[i], type, now)
                            EXCEPT !.outcome = type]]
        /\ last' = Did("resolved", "", Null)
        /\ UNCHANGED <<now, steps, store, rateLimiter, run, engine, calls, batch, models, eventLog>>

\* engine.evaluate throws before it returns a promise, or the promise it
\* returned rejects, with an Error.
MwEvaluateRejects ==
    \E i \in 1..Len(http.reqs), how \in {"threw", "rejected"} :
        /\ http.reqs[i].pc = "evaluate"
        /\ http' = [http EXCEPT !.reqs[i] =
                        [Middleware_catch(http.config, http.reqs[i])
                            EXCEPT !.outcome = how]]
        /\ last' = Did(how, "", Null)
        /\ UNCHANGED <<now, steps, store, rateLimiter, run, engine, calls, batch, models, eventLog>>

\* The timer of handleThrottle fires, not before its delay is over: next().
MwTimer ==
    \E i \in 1..Len(http.reqs) :
        /\ http.reqs[i].pc = "timer"
        /\ now >= http.reqs[i].due
        /\ http' = [http EXCEPT !.reqs[i].pc = "done", !.reqs[i].next = @ + 1,
                                !.reqs[i].nextAt = now]
        /\ last' = Did("timer", "", Null)
        /\ UNCHANGED <<now, steps, store, rateLimiter, run, engine, calls, batch, models, eventLog>>

\* The response of a request is sent to the end, by the middleware (403,
\* 429) or by the handler next() passed the request to: 'finish' is emitted.
MwFinish ==
    \E i \in 1..Len(http.reqs) :
        LET h == http.reqs[i]
        IN  /\ h.pc = "done" /\ ~h.finished
            /\ http' = [http EXCEPT !.reqs[i] = Middleware_finish(http.config, h)]
            /\ store' = IF h.onFinish
                         THEN RiskEngine_recordEvent(store, MwExtracted.userId, MwExtracted, now)
                         ELSE store
            /\ last' = Did("finish", "", Null)
            /\ UNCHANGED <<now, steps, rateLimiter, run, engine, calls, batch, models, eventLog>>

\* The router that called the middleware finds the promise rejected. One
\* that handles rejected promises calls next(error); one that does not
\* leaves the request alone, which is the case where this step never comes.
MwRouterCatches ==
    \E i \in 1..Len(http.reqs) :
        /\ http.reqs[i].pc = "rejected"
        /\ http' = [http EXCEPT !.reqs[i].pc = "done", !.reqs[i].next = @ + 1,
                                !.reqs[i].nextAt = now]
        /\ last' = Did("router", "", Null)
        /\ UNCHANGED <<now, steps, store, rateLimiter, run, engine, calls, batch, models, eventLog>>

\* Time goes by: up to MaxClock, and beyond it while a timer of
\* handleThrottle is not yet due.
MwTick ==
    /\ \/ now < MaxClock
       \/ \E i \in 1..Len(http.reqs) : http.reqs[i].pc = "timer" /\ now < http.reqs[i].due
    /\ now' = now + 1
    /\ last' = Did("tick", "", Null)
    /\ UNCHANGED <<steps, store, rateLimiter, run, engine, calls, batch, http, models, eventLog>>

NextMW ==
    \/ MwTick \/ MwRequest \/ MwEvaluateResolves \/ MwEvaluateRejects \/ MwTimer
    \/ MwFinish \/ MwRouterCatches

SpecMW == InitMW /\ [][NextMW]_vars

\* The event loop of the server: a promise that can settle does, the clock
\* goes on and a timer that is due fires. Requests and the end of their
\* responses come from outside and need not happen, and a router need not
\* handle a rejected promise.
SpecMWFair ==
    /\ SpecMW
    /\ WF_vars(MwEvaluateResolves \/ MwEvaluateRejects)
    /\ WF_vars(MwTick)
    /\ WF_vars(MwTimer)

\* Request i has had its one outcome: next() once and no response from the
\* middleware, or a 403 or 429 response and no next().
Settled(i) ==
    /\ i <= Len(http.reqs)
    /\ http.reqs[i].pc = "done"
    /\ \/ http.reqs[i].next = 1 /\ http.reqs[i].status = 0
       \/ http.reqs[i].next = 0 /\ http.reqs[i].status \in {403, 429}

\* C38: every request that enters the middleware eventually has exactly one
\* outcome, next() called once or a 403 or 429 response sent, and at no time
\* has it both or next() twice; a throttled request is passed on when its
\* timer fires, a request on a skipped path at once.
C38_ExactlyOneOutcome ==
    /\ [](\A i \in 1..Len(http.reqs) :
             /\ http.reqs[i].next <= 1
             /\ ~(http.reqs[i].next = 1 /\ http.reqs[i].status # 0))
    /\ \A i \in 1..MaxRequests : (i <= Len(http.reqs)) ~> [](Settled(i))

\* The extractor has thrown on a request: the middleware is over for it
\* with neither next() called nor a response sent, while a request on a
\* skipped path has been passed on.
C38_Witness ==
    \E i, j \in 1..Len(http.reqs) :
        /\ http.reqs[i].outcome = "extract" /\ http.reqs[i].pc = "rejected"
        /\ http.reqs[i].next = 0 /\ http.reqs[i].status = 0
        /\ http.reqs[j].skip /\ Settled(j)

\* C12: when engine.evaluate throws or rejects while the middleware handles
\* a request, next() is called (once) and no 403 or 429 response is sent.
C12_FailOpenAtTheAdapter ==
    \A i \in 1..Len(http.reqs) :
        http.reqs[i].outcome \in {"threw", "rejected"}
            => /\ http.reqs[i].next = 1
               /\ http.reqs[i].status = 0
               /\ http.reqs[i].pc = "done"

\* evaluate has rejected for one request, which was passed on with the
\* error logged, while another request was answered with 403.
C12_Witness ==
    \E i, j \in 1..Len(http.reqs) :
        /\ http.reqs[i].outcome = "rejected"
        /\ http.reqs[i].logged /\ http.reqs[i].next = 1
        /\ http.reqs[j].status = 403

\* C21: the outcome of a request follows the action of its decision: allow
\* passes it through; challenge answers 429, or passes it through when it
\* carries x-challenge-response; throttle passes it through, and not before
\* throttleDelay/factor ms have gone by; block and ban answer 403 and never
\* pass it through.
C21_OutcomeFollowsTheDecision ==
    \A i \in 1..Len(http.reqs) :
        LET h == http.reqs[i]
            passed == h.pc = "done" /\ h.next = 1 /\ h.status = 0
        IN  /\ h.outcome = "allow" => passed
            /\ h.outcome = "challenge" =>
                  IF h.challengeResponse THEN passed
                  ELSE h.status = 429 /\ h.next = 0
            /\ h.outcome = "throttle" =>
                  /\ h.status = 0
                  /\ h.next <= 1
                  /\ h.next = 1 => (h.nextAt - h.at) * ClockStep >= Middleware_delay
            /\ h.outcome \in {"block", "ban"} => h.status = 403 /\ h.next = 0

\* A throttled request has been passed through after its delay, and a
\* request whose decision was block has been answered with 403.
C21_Witness ==
    \E i, j \in 1..Len(http.reqs) :
        /\ http.reqs[i].outcome = "throttle" /\ http.reqs[i].next = 1
        /\ http.reqs[i].nextAt = http.reqs[i].at + DelaySteps
        /\ http.reqs[j].outcome = "block" /\ http.reqs[j].status = 403

\* C37: a request the middleware has evaluated has appended exactly one
\* event to the event list of its identity, whatever the action of its
\* decision, also when its response has been sent.
C37_OneEventPerRequest ==
    \A i \in 1..Len(http.reqs) :
        http.reqs[i].outcome \in ActionTypes => http.reqs[i].events = 1

\* The only request so far was allowed and answered by the handler behind
\* the middleware, and events:u1 holds two events.
C37_Witness ==
    /\ Len(http.reqs) = 1
    /\ http.reqs[1].outcome = "allow"
    /\ http.reqs[1].finished /\ http.reqs[1].status = 0
    /\ http.reqs[1].events = 2
    /\ Len(EventsOf(MemoryStore_get(store, EventsKey("u1"), now))) = 2


\* C39: in every state of the engine blocked + challenged + allowed equals
\* totalEvaluations, and none of the four counters ever decreases.
C39_CountersAddUp ==
    /\ [](engine.globalStats.blocked + engine.globalStats.challenged
            + engine.globalStats.allowed = engine.globalStats.totalEvaluations)
    /\ [][/\ engine'.globalStats.blocked >= engine.globalStats.blocked
          /\ engine'.globalStats.challenged >= engine.globalStats.challenged
          /\ engine'.globalStats.allowed >= engine.globalStats.allowed
          /\ engine'.globalStats.totalEvaluations
                >= engine.globalStats.totalEvaluations]_vars

\* A request has just been throttled and counted as allowed, after an
\* earlier one was blocked.
C39_Witness ==
    /\ last.op = "evaluate"
    /\ last.r.action.type = "throttle"
    /\ engine.globalStats.allowed >= 1
    /\ engine.globalStats.blocked >= 1
    /\ engine.globalStats.totalEvaluations >= 2

\* C16: a producer that cannot compute a score - the behaviour analyser
\* below minSamples events, the pattern detector below minPatternLength
\* events - adds neither its weight nor a term to the fused score: the score
\* of the decision is the one computed with that producer's weight at 0.
C16_UncomputedProducersAreDropped ==
    last.op = "evaluate" =>
        LET remaining ==
                [engine.weights EXCEPT
                    !.behavior = IF LastCall.ghost.events >= MinSamples THEN @ ELSE 0,
                    !.patterns = IF LastCall.ghost.events >= MinPatternLength THEN @ ELSE 0]
        IN  last.r.riskScore = RiskEngine_calculateRiskScore(ComponentsOf(LastCall), remaining)

\* A decision has been returned for the first request of an identity, whose
\* event list is too short for both producers, with a score above 0.
C16_Witness ==
    /\ last.op = "evaluate"
    /\ LastCall.ghost.events < MinPatternLength
    /\ LastCall.ghost.events < MinSamples
    /\ ~LastCall.behavior.reliable
    /\ last.r.riskScore > 0

\* C19: the only request a fresh engine is sent, with the user-agent
\* "python-requests/2.31" and no client hints, is classified isBot, scored
\* 0.7 or more and blocked.
C19_ScriptClientIsBlockedAsBot ==
    (last.op = "evaluate" /\ steps = 1 /\ LastCall.request.kind = "script")
        => /\ last.r.components.fingerprint.isBot
           /\ last.r.riskScore >= 700
           /\ last.r.action.type = "block"

\* The decision on that request has been returned.
C19_Witness ==
    /\ last.op = "evaluate" /\ steps = 1 /\ LastCall.request.kind = "script"
    /\ engine.globalStats.totalEvaluations = 1
    /\ LastCall.fingerprint.isBot.score = 700

====
